---- MODULE Spec2Model ----
(***************************************************************************)
(* A model of the lending health checker: the threshold configuration      *)
(* (user_data) and its resolver, the bot's position discovery and          *)
(* periodic alerting, and the strategy-based ProtocolManager.              *)
(*                                                                         *)
(* Numbers.  Python floats and uint256 chain values are modelled by        *)
(* integers: a health factor, a threshold or a token amount x is the       *)
(* integer 10*x ("tenths"), and a raw 18-decimal chain value is counted in *)
(* units of 1e17, so that WAD (the code's 1e18) is 10 raw units.  The      *)
(* large constants of the code keep their order but not their size:        *)
(*   every ordinary reading < RAW_CAP/WAD (1e20/1e18) < HF_MAX (1e10)      *)
(*                          < MAX_UINT/WAD (the closed-position sentinel). *)
(***************************************************************************)
EXTENDS Integers, Sequences, FiniteSets, TLC

VARIABLES
    user_data,      \* lendinghealthchecker.user_data: chat -> addresses -> thresholds
    user_data_file, \* what USER_DATA_FILE holds
    botCall,        \* the bot's call in hand: its arguments and what it reads
    botResult,      \* what discover_all_positions returned
    alerts,         \* the alerts list check_and_notify collected for its chat
    sent,           \* the alerts check_and_notify has sent
    mgrCall,        \* the get_all_positions call in hand: arguments, outcomes, reads
    mgrResult,      \* what that call returned
    asyncCall,      \* the get_all_positions_async call in hand
    asyncPc,        \* get_all_positions_async: "idle", "gathering" or "returned"
    task,           \* get_all_positions_async: the state of each adapter's task
    asyncOut,       \* get_all_positions_async: the outcome each finished task holds
    completed,      \* get_all_positions_async: the tasks in the order they finished
    asyncResult,    \* get_all_positions_async: the list returned
    _cache,         \* lendinghealthchecker._cache: cache key -> (value, timestamp)
    now,            \* time(), in units of 15 seconds
    world,          \* what the chain and the indexer answer at this time
    prevCall,       \* the discovery that the one in hand repeats, with its result
    dk_entries,     \* the entry table of the dict user_data: its keys in insertion order
    sweepPc,        \* periodic_check: "idle", "next", "sending", "done", "aborted"
                    \* (by the dict iterator) or "failed" (by a notification)
    di_pos,         \* the dict iterator of periodic_check: the next slot of the table
    di_used,        \* the dict iterator: len(user_data) when the iterator was made
    di_len,         \* the dict iterator: the keys it has still to give
    atStart,        \* the chats of user_data when the sweep started
    checked,        \* the chats check_and_notify was called for in this sweep
    dropped,        \* the chats deleted from user_data during this sweep
    stopped,        \* the chats whose last command handled was /stop
    _symbol_cache,  \* CurvanceStrategy._symbol_cache: token -> symbol
    _ctoken_asset_cache, \* CurvanceStrategy._ctoken_asset_cache: cToken -> asset
    rpc,            \* which of the chain's symbol() and asset() calls succeed now
    symPc,          \* the symbol lookups of get_positions: "idle" or "returned"
    reported        \* the symbols the last get_positions put in its position

vars == <<user_data, user_data_file, botCall, botResult, alerts, sent, mgrCall, mgrResult,
          asyncCall, asyncPc, task, asyncOut, completed, asyncResult,
          _cache, now, world, prevCall,
          dk_entries, sweepPc, di_pos, di_used, di_len, atStart, checked, dropped,
          stopped, _symbol_cache, _ctoken_asset_cache, rpc, symPc, reported>>

cfgVars   == <<user_data, user_data_file>>
botVars   == <<botCall, botResult, alerts, sent>>
mgrVars   == <<mgrCall, mgrResult>>
asyncVars == <<asyncCall, asyncPc, task, asyncOut, completed, asyncResult>>
cacheVars == <<_cache, now, world, prevCall>>
sweepVars == <<dk_entries, sweepPc, di_pos, di_used, di_len, atStart, checked,
               dropped, stopped>>
symVars   == <<_symbol_cache, _ctoken_asset_cache, rpc, symPc, reported>>

----------------------------------------------------------------------------
(* Values *)

\* Python's None, where a number is expected
None == -999

\* 1e18 in raw units of 1e17
WAD == 10

\* the bound above which a health factor is a closed position (1e10)
HF_MAX == 100000

\* the raw bound 1e20 of CurvanceStrategy's probes
RAW_CAP == 1000

\* max uint256, what a pool returns as health of an account with no debt
MAX_UINT == 2000000

\* the fallback threshold 1.5
DEFAULT_THRESHOLD == 15

\* a dict key that is not there, where a threshold is expected
NoThr == -1

\* a value that float() cannot parse
Unparseable == -998

\* the lookup of a key a dict does not have
KeyError == -997

NoAddress  == "none"
NoProtocol == "none"
NoMarket   == "none"

\* no call in hand
NoCall == [kind |-> "none"]

\* PROTOCOL_CONFIG's keys, in the order of the dict
PROTOCOL_CONFIG == <<"neverland", "morpho", "curvance">>
ProtocolIds == {PROTOCOL_CONFIG[i] : i \in 1..Len(PROTOCOL_CONFIG)}

Chats     == {"c1"}
Addresses == {"a1"}

\* market ids: a Morpho market key (66 characters) and Curvance market
\* managers (42 characters)
MorphoMarkets    == {"m1", "m2"}
CurvanceManagers == {"mm1", "mm2"}
MarketIds        == MorphoMarkets \cup CurvanceManagers

\* how many different thresholds the commands set
NumThresholds == 2
Thresholds == 12..(11 + NumThresholds)

Range(s) == {s[i] : i \in 1..Len(s)}

\* the elements of a set, one after the other
RECURSIVE SeqOf(_)
SeqOf(set) ==
    IF set = {} THEN <<>>
    ELSE LET a == CHOOSE x \in set : TRUE IN <<a>> \o SeqOf(set \ {a})


----------------------------------------------------------------------------
(* user_data and the threshold resolver *)

EmptyMarkets == [m \in MarketIds |-> NoThr]

NoProtoData == [present |-> FALSE, threshold |-> NoThr,
                hasMarkets |-> FALSE, markets |-> EmptyMarkets]

EmptyProtocols == [p \in ProtocolIds |-> NoProtoData]

NoAddrData == [present |-> FALSE, default_threshold |-> NoThr,
               hasProtocols |-> FALSE, protocols |-> EmptyProtocols]

\* hasAddresses: the entry of the chat has its 'addresses' key
NoChatData == [present |-> FALSE, hasAddresses |-> FALSE,
               addresses |-> [a \in Addresses |-> NoAddrData]]

EmptyUserData == [c \in Chats |-> NoChatData]

\* Python's truth value of a threshold read with .get(): None and 0 are false
Truthy(v) == v /= NoThr /\ v /= 0

\* address_data.get('protocols', {}).get(protocol_id, {})
ProtoOf(ad, protocol_id) ==
    IF ad.present /\ ad.hasProtocols /\ protocol_id \in ProtocolIds
    THEN ad.protocols[protocol_id]
    ELSE NoProtoData

\* .get('markets', {}).get(market_id, {}).get('threshold')
MarketThresholdOf(pd, market_id) ==
    IF pd.present /\ pd.hasMarkets /\ market_id \in MarketIds
    THEN pd.markets[market_id]
    ELSE NoThr

get_threshold_for_position_swapped(ud, chat_id, address, protocol_id, market_id) ==
    IF ~(chat_id \in DOMAIN ud /\ ud[chat_id].present) THEN DEFAULT_THRESHOLD
    ELSE
      LET address_data == IF address \in Addresses
                          THEN ud[chat_id].addresses[address] ELSE NoAddrData
          pd == ProtoOf(address_data, protocol_id)
          market_threshold == MarketThresholdOf(pd, market_id)
      IN  IF Truthy(pd.threshold) THEN pd.threshold
          ELSE IF market_id /= NoMarket /\ Truthy(market_threshold) THEN market_threshold
          ELSE IF address_data.present /\ address_data.default_threshold /= NoThr
               THEN address_data.default_threshold
               ELSE DEFAULT_THRESHOLD

\* address_data['protocols'] in place of address_data.get('protocols', {})
get_threshold_for_position_subscripted(ud, chat_id, address, protocol_id, market_id) ==
    IF ~(chat_id \in DOMAIN ud /\ ud[chat_id].present) THEN DEFAULT_THRESHOLD
    ELSE
      LET address_data == IF address \in Addresses
                          THEN ud[chat_id].addresses[address] ELSE NoAddrData
          pd == ProtoOf(address_data, protocol_id)
          market_threshold == MarketThresholdOf(pd, market_id)
      IN  IF ~(address_data.present /\ address_data.hasProtocols) THEN KeyError
          ELSE IF market_id /= NoMarket /\ Truthy(market_threshold) THEN market_threshold
          ELSE IF Truthy(pd.threshold) THEN pd.threshold
          ELSE IF address_data.default_threshold /= NoThr
               THEN address_data.default_threshold
               ELSE DEFAULT_THRESHOLD

get_threshold_for_position(ud, chat_id, address, protocol_id, market_id) ==
    IF ~(chat_id \in DOMAIN ud /\ ud[chat_id].present) THEN DEFAULT_THRESHOLD
    ELSE
      LET address_data == IF address \in Addresses
                          THEN ud[chat_id].addresses[address] ELSE NoAddrData
          pd == ProtoOf(address_data, protocol_id)
          market_threshold == MarketThresholdOf(pd, market_id)
      IN  IF market_id /= NoMarket /\ Truthy(market_threshold) THEN market_threshold
          ELSE IF Truthy(pd.threshold) THEN pd.threshold
          ELSE IF address_data.present /\ address_data.default_threshold /= NoThr
               THEN address_data.default_threshold
               ELSE DEFAULT_THRESHOLD

----------------------------------------------------------------------------
(* The commands that write user_data *)

\* w3.is_address(address)
IsAddress(address) == address \in Addresses

\* the format checks of /add: a Morpho market id has 66 characters, a
\* Curvance market manager 42; any other protocol takes any market id
MarketFormatOk(protocol_id, market_id) ==
    CASE protocol_id = "morpho"   -> market_id \in MorphoMarkets
      [] protocol_id = "curvance" -> market_id \in CurvanceManagers
      [] OTHER                    -> TRUE

\* add_address's validation of its arguments
AddAccepted(address, threshold, protocol_id, market_id) ==
    /\ address /= NoAddress /\ threshold /= None
    /\ threshold /= Unparseable /\ threshold > 0
    /\ IsAddress(address)
    /\ protocol_id /= NoProtocol => protocol_id \in ProtocolIds
    /\ market_id /= NoMarket => MarketFormatOk(protocol_id, market_id)

\* add_address that makes the entry of the chat and leaves out the entry of
\* the address
WithAddress_chat_only(ud, chat_id, address, threshold) ==
    IF ud[chat_id].present THEN ud
    ELSE [ud EXCEPT ![chat_id] =
             [NoChatData EXCEPT !.present = TRUE, !.hasAddresses = TRUE]]

\* user_data after lines 464-472 of add_address: the chat and the address
\* are created when missing, the address with the threshold of the command
\* as its default
WithAddress(ud, chat_id, address, threshold) ==
    LET cd == IF ud[chat_id].present THEN ud[chat_id]
              ELSE [NoChatData EXCEPT !.present = TRUE, !.hasAddresses = TRUE]
        ad == IF cd.addresses[address].present THEN cd.addresses[address]
              ELSE [present |-> TRUE, default_threshold |-> threshold,
                    hasProtocols |-> TRUE, protocols |-> EmptyProtocols]
    IN  [ud EXCEPT ![chat_id] = [cd EXCEPT !.addresses[address] = ad]]

\* user_data[chat_id]['addresses'] and address_data['protocols'] are read
\* without .get(): KeyError when the entry of the chat was loaded without
\* its 'addresses' key, or when /remove has deleted the 'protocols' key
AddRaises(ud, chat_id, address, protocol_id) ==
    /\ ud[chat_id].present
    /\ \/ ~ud[chat_id].hasAddresses
       \/ /\ protocol_id /= NoProtocol
          /\ ud[chat_id].addresses[address].present
          /\ ~ud[chat_id].addresses[address].hasProtocols

\* the address entry after the threshold is set at its level
SetThreshold(ad, threshold, protocol_id, market_id) ==
    IF market_id /= NoMarket THEN
        LET old == ad.protocols[protocol_id]
            pd  == IF ~old.present
                   THEN [NoProtoData EXCEPT !.present = TRUE, !.hasMarkets = TRUE]
                   ELSE [old EXCEPT !.hasMarkets = TRUE]
        IN  [ad EXCEPT !.protocols[protocol_id] =
                          [pd EXCEPT !.markets[market_id] = threshold]]
    ELSE IF protocol_id /= NoProtocol THEN
        [ad EXCEPT !.protocols[protocol_id] =
            [ad.protocols[protocol_id] EXCEPT !.present = TRUE,
                                              !.threshold = threshold]]
    ELSE [ad EXCEPT !.default_threshold = threshold]

\* what add_address replies: the message of the first check that fails, in
\* the order of the checks
add_reply(address, threshold, protocol_id, market_id) ==
    IF address = NoAddress \/ threshold = None THEN "usage"
    ELSE IF threshold = Unparseable \/ threshold <= 0 THEN "invalid threshold"
    ELSE IF ~IsAddress(address) THEN "invalid address"
    ELSE IF protocol_id /= NoProtocol /\ protocol_id \notin ProtocolIds
    THEN "unknown protocol"
    ELSE IF market_id /= NoMarket /\ ~MarketFormatOk(protocol_id, market_id)
    THEN "invalid market"
    ELSE "added"

\* /add that makes the entries of the chat and the address before it
\* validates its arguments
add_address_entry_first(ud, chat_id, address, threshold, protocol_id, market_id) ==
    IF ~AddAccepted(address, threshold, protocol_id, market_id)
    THEN IF IsAddress(address) /\ ~ud[chat_id].present
         THEN WithAddress(ud, chat_id, address, DEFAULT_THRESHOLD)
         ELSE ud
    ELSE IF AddRaises(ud, chat_id, address, protocol_id) THEN ud
    ELSE LET ud1 == WithAddress(ud, chat_id, address, threshold)
         IN  [ud1 EXCEPT ![chat_id].addresses[address] =
                 SetThreshold(ud1[chat_id].addresses[address],
                              threshold, protocol_id, market_id)]

\* user_data after /add <address> <threshold> [protocol] [market]
add_address(ud, chat_id, address, threshold, protocol_id, market_id) ==
    IF ~AddAccepted(address, threshold, protocol_id, market_id) THEN ud
    ELSE IF AddRaises(ud, chat_id, address, protocol_id) THEN ud
    ELSE LET ud1 == WithAddress(ud, chat_id, address, threshold)
         IN  [ud1 EXCEPT ![chat_id].addresses[address] =
                 SetThreshold(ud1[chat_id].addresses[address],
                              threshold, protocol_id, market_id)]

\* user_data after /remove <address> [protocol] [market]
remove_address(ud, chat_id, address, protocol_id, market_id) ==
    IF ~(ud[chat_id].present /\ address \in Addresses
         /\ ud[chat_id].addresses[address].present) THEN ud
    ELSE
      LET ad == ud[chat_id].addresses[address]
          pd == ProtoOf(ad, protocol_id)
      IN
      IF market_id /= NoMarket THEN
          IF protocol_id /= NoProtocol /\ pd.present
             /\ MarketThresholdOf(pd, market_id) /= NoThr
          THEN LET left == [pd.markets EXCEPT ![market_id] = NoThr]
                   pd1  == [pd EXCEPT !.markets = left,
                                      !.hasMarkets = (left /= EmptyMarkets)]
               IN  [ud EXCEPT ![chat_id].addresses[address].protocols[protocol_id] = pd1]
          ELSE ud
      ELSE IF protocol_id /= NoProtocol THEN
          IF pd.present
          THEN LET left == [ad.protocols EXCEPT ![protocol_id] = NoProtoData]
               IN  [ud EXCEPT ![chat_id].addresses[address] =
                       [ad EXCEPT !.protocols = left,
                                  !.hasProtocols = (left /= EmptyProtocols)]]
          ELSE ud
      ELSE
          LET left == [ud[chat_id].addresses EXCEPT ![address] = NoAddrData]
          IN  IF \A a \in Addresses : ~left[a].present
              THEN [ud EXCEPT ![chat_id] = NoChatData]
              ELSE [ud EXCEPT ![chat_id].addresses = left]

\* An entry of the saved file: entry holds the chat's 'addresses' (a chat
\* that is no key of the file has an entry that is not present), address
\* and threshold the keys 'address' and 'threshold' of the old format,
\* NoAddress and NoThr standing for a missing key.
OldFormat(address, threshold) ==
    [address |-> address, threshold |-> threshold,
     entry |-> [NoChatData EXCEPT !.present = TRUE]]
NewFormat(entry) ==
    [address |-> NoAddress, threshold |-> NoThr, entry |-> entry]
OtherFormat ==
    [address |-> NoAddress, threshold |-> NoThr,
     entry |-> [NoChatData EXCEPT !.present = TRUE]]
NoFileEntry ==
    [address |-> NoAddress, threshold |-> NoThr, entry |-> NoChatData]

\* the content of the file after save_user_data(data): json.dump writes the
\* entry of each chat of data
save_user_data(data) == [chat_id \in Chats |-> NewFormat(data[chat_id])]

\* user_data after /stop
stop(ud, chat_id) ==
    IF ud[chat_id].present THEN [ud EXCEPT ![chat_id] = NoChatData] ELSE ud

\* migrate_user_data that looks for the 'address' key first
migrate_user_data_address_first(data) ==
    [chat_id \in Chats |->
        LET user_info == data[chat_id]
        IN  IF user_info.entry.present /\ user_info.address /= NoAddress
            THEN NewFormat(
                   [present |-> TRUE, hasAddresses |-> TRUE,
                    addresses |->
                       [a \in Addresses |->
                          IF a = user_info.address
                          THEN [present |-> TRUE,
                                default_threshold |->
                                   IF user_info.threshold = NoThr
                                   THEN DEFAULT_THRESHOLD ELSE user_info.threshold,
                                hasProtocols |-> TRUE, protocols |-> EmptyProtocols]
                          ELSE NoAddrData]])
            ELSE user_info]

\* migrate_user_data: an entry with its 'addresses' is kept, an entry with
\* an 'address' becomes one with that address, its threshold (1.5 without
\* one) and no protocols, any other entry is kept
migrate_user_data(data) ==
    [chat_id \in Chats |->
        LET user_info == data[chat_id]
        IN  IF ~user_info.entry.present THEN user_info
            ELSE IF user_info.entry.hasAddresses THEN user_info
            ELSE IF user_info.address /= NoAddress
            THEN NewFormat(
                   [present |-> TRUE, hasAddresses |-> TRUE,
                    addresses |->
                       [a \in Addresses |->
                          IF a = user_info.address
                          THEN [present |-> TRUE,
                                default_threshold |->
                                   IF user_info.threshold = NoThr
                                   THEN DEFAULT_THRESHOLD ELSE user_info.threshold,
                                hasProtocols |-> TRUE, protocols |-> EmptyProtocols]
                          ELSE NoAddrData]])
            ELSE user_info]

\* user_data as the program uses it: the 'addresses' of each chat
InMemory(data) == [chat_id \in Chats |-> data[chat_id].entry]

\* load_user_data on a file that holds a dict: what it returns, what the
\* file holds afterwards and whether it wrote the file
load_user_data(data) ==
    LET migrated == migrate_user_data(data)
    IN  [user_data |-> InMemory(migrated),
         file      |-> IF migrated /= data THEN migrated ELSE data,
         wrote     |-> migrated /= data]

\* the arguments the commands are given
CmdAddresses  == Addresses \cup {"bad"}
CmdThresholds == Thresholds \cup {0}
CmdProtocols  == ProtocolIds \cup {"euler", NoProtocol}
CmdMarkets    == {"m1", "mm1", NoMarket}

\* /add with its arguments: none, the address only, or the address and the
\* threshold with or without a protocol and a market
Add(chat_id) ==
    \E address \in CmdAddresses \cup {NoAddress},
       threshold \in CmdThresholds \cup {None, Unparseable},
       protocol_id \in CmdProtocols, market_id \in CmdMarkets :
        /\ botCall = NoCall
        /\ market_id /= NoMarket => protocol_id /= NoProtocol
        /\ address = NoAddress => threshold = None
        /\ threshold = None => protocol_id = NoProtocol
        /\ user_data' = add_address(user_data, chat_id, address, threshold,
                                    protocol_id, market_id)
        /\ user_data_file' =
              IF /\ AddAccepted(address, threshold, protocol_id, market_id)
                 /\ ~AddRaises(user_data, chat_id, address, protocol_id)
              THEN save_user_data(user_data') ELSE user_data_file
        /\ botCall' = [kind |-> "add",
                       reply |-> add_reply(address, threshold, protocol_id, market_id)]
        /\ UNCHANGED <<botResult, alerts, sent>>
        /\ UNCHANGED <<mgrVars, asyncVars, cacheVars, sweepVars, symVars>>

Remove(chat_id) ==
    \E address \in CmdAddresses, protocol_id \in CmdProtocols,
       market_id \in CmdMarkets :
        /\ botCall = NoCall
        /\ market_id /= NoMarket => protocol_id /= NoProtocol
        /\ user_data' = remove_address(user_data, chat_id, address,
                                       protocol_id, market_id)
        /\ user_data_file' = IF user_data' /= user_data
                             THEN save_user_data(user_data') ELSE user_data_file
        /\ UNCHANGED <<botVars, mgrVars, asyncVars, cacheVars, sweepVars, symVars>>

Stop(chat_id) ==
    /\ botCall = NoCall
    /\ user_data' = stop(user_data, chat_id)
    /\ user_data_file' = IF user_data[chat_id].present
                         THEN save_user_data(user_data') ELSE user_data_file
    /\ UNCHANGED <<botVars, mgrVars, asyncVars, cacheVars, sweepVars, symVars>>


----------------------------------------------------------------------------
(* Chain and indexer readings, and the functions of protocols.py that turn
   them into health factors.  A float x is the integer 10*x. *)

\* the float raw/divisor, in tenths
Tenths(raw, divisor) == (raw * 10) \div divisor

\* Neverland's base currency has 8 decimals in the code; one decimal here
BASE == 10

is_valid_position(health_factor, borrow_amount) ==
    /\ health_factor /= None
    /\ ~(health_factor > HF_MAX)
    /\ ~(borrow_amount /= None /\ borrow_amount /= Unparseable /\ borrow_amount = 0)

\* getUserAccountData(address): the call fails, or returns totalCollateralBase,
\* totalDebtBase and healthFactor (index 5)
FailedAccountData == [ok |-> FALSE, collateral |-> 0, debt |-> 0, hf |-> 0]

check_neverland_health_factor(resp) ==
    IF resp.ok THEN Tenths(resp.hf, WAD) ELSE None

\* None, or the dict with collateral_usd and debt_usd
get_neverland_account_data(resp) ==
    IF resp.ok
    THEN [present |-> TRUE, collateral_usd |-> Tenths(resp.collateral, BASE),
          debt_usd |-> Tenths(resp.debt, BASE)]
    ELSE [present |-> FALSE, collateral_usd |-> 0, debt_usd |-> 0]

\* the indexer's answer to get_morpho_user_markets: unreachable ("down":
\* requests.post raises), a status other than 200 ("error"), a body that
\* cannot be read ("malformed": reading it raises), or the marketPositions of
\* the user ("ok"); every exception is caught and [] returned
RECURSIVE MarketsOf(_)
MarketsOf(positions) ==
    IF positions = <<>> THEN <<>>
    ELSE LET pos == Head(positions)
         IN  (IF pos.uniqueKey /= NoMarket
              THEN <<[id |-> pos.uniqueKey, healthFactor |-> pos.healthFactor,
                      borrowAssetsUsd |-> pos.borrowAssetsUsd]>>
              ELSE <<>>) \o MarketsOf(Tail(positions))

get_morpho_user_markets(resp) ==
    IF resp.status = "ok" THEN MarketsOf(resp.positions) ELSE <<>>

\* KNOWN_CURVANCE_MARKET_MANAGERS
KNOWN_CURVANCE_MARKET_MANAGERS == <<"mm1", "mm2">>

\* the registry's marketManagers(), or the known list when the call fails or
\* returns nothing
get_curvance_market_managers(chain) ==
    IF chain.registryOk /\ chain.registry /= <<>> THEN chain.registry
    ELSE KNOWN_CURVANCE_MARKET_MANAGERS

\* the cToken of a raw position that names no token (the zero address)
ZeroToken == "zero"

\* what each market manager lists on chain (queryTokensListed): its
\* borrowable cToken first, then its collateral cTokens.  mm1 is the
\* earnAUSD/WMON manager: ct1 is cWMON and ct2 is cearnAUSD
TokensListed(mm) ==
    CASE mm = "mm1" -> <<"b1", "ct1", "ct2">>
      [] mm = "mm2" -> <<"b2", "ct3">>
      [] OTHER      -> <<>>

\* the account owes something in the market of mm
HasDebtIn(chain, mm) ==
    \E i \in 1..Len(chain.raw) : chain.raw[i].owner = mm /\ chain.raw[i].debt > 0

\* ProtocolReader.getPositionHealth(mm, account, cToken, ...): the aggregate
\* health of the account in mm when mm lists the cToken and the account has
\* debt there, and chain.miss (an error code, a zero or a failed call) when
\* not
PositionHealthError == [raises |-> FALSE, raw |-> 0, err |-> TRUE]
PositionHealthZero  == [raises |-> FALSE, raw |-> 0, err |-> FALSE]
PositionHealthFails == [raises |-> TRUE,  raw |-> 0, err |-> FALSE]

getPositionHealth(chain, mm, cToken) ==
    IF cToken \in Range(TokensListed(mm)) /\ HasDebtIn(chain, mm)
    THEN [raises |-> FALSE, raw |-> chain.mmHealth[mm], err |-> FALSE]
    ELSE chain.miss

\* the raw positions of getAllDynamicState that carry debt
RECURSIVE WithDebt(_)
WithDebt(positions) ==
    IF positions = <<>> THEN <<>>
    ELSE (IF Head(positions).debt = 0 THEN <<>> ELSE <<Head(positions)>>)
         \o WithDebt(Tail(positions))

\* the health of a probe that succeeds with a health above 0, else what the
\* code turns to next
HealthOr(r, otherwise) ==
    IF ~r.raises /\ ~r.err /\ r.raw > 0 THEN Tenths(r.raw, WAD) ELSE otherwise

\* check_curvance_health_factor's health of one raw position against the
\* managers to try: the first manager whose probe succeeds with a health
\* above 0
RECURSIVE ProbeManagers(_, _, _)
ProbeManagers(chain, position, managers) ==
    IF managers = <<>> THEN None
    ELSE HealthOr(getPositionHealth(chain, Head(managers), position.cToken),
                  ProbeManagers(chain, position, Tail(managers)))

\* the fallback to position[3], the health of getAllDynamicState, when no
\* probe gave a health and that one is above 0
FallbackToPositionHealth(probed, position) ==
    IF probed /= None THEN probed
    ELSE IF position.health > 0 THEN Tenths(position.health, WAD)
    ELSE None

PositionHealthOrFallback(chain, position, managers) ==
    FallbackToPositionHealth(ProbeManagers(chain, position, managers), position)

\* health_factors.append(hf) when the position has a health
AppendHealth(hf) == IF hf = None THEN <<>> ELSE <<hf>>

RECURSIVE HealthFactors(_, _, _)
HealthFactors(chain, positions, managers) ==
    IF positions = <<>> THEN <<>>
    ELSE AppendHealth(PositionHealthOrFallback(chain, Head(positions), managers))
         \o HealthFactors(chain, Tail(positions), managers)

SeqMin(s) == CHOOSE x \in Range(s) : \A y \in Range(s) : x <= y

\* min(health_factors), None when the list is empty
WorstHealth(hfs) == IF hfs = <<>> THEN None ELSE SeqMin(hfs)

\* check_curvance_health_factor(address, contract, w3, market_manager, None):
\* the worst health among the debt-bearing raw positions, None when there is
\* none or getAllDynamicState fails
check_curvance_health_factor(chain, market_manager) ==
    IF ~chain.stateOk \/ chain.raw = <<>> THEN None
    ELSE WorstHealth(HealthFactors(chain, WithDebt(chain.raw), <<market_manager>>))

\* get_curvance_position_details: one entry per debt-bearing raw position,
\* with the raw amounts when the token's symbol() or decimals() call fails
RECURSIVE DetailsOf(_, _)
DetailsOf(chain, positions) ==
    IF positions = <<>> THEN <<>>
    ELSE LET pos == Head(positions)
         IN  <<[cToken |-> pos.cToken,
                debt_amount |-> IF chain.tokenOk THEN Tenths(pos.debt, WAD)
                                ELSE Tenths(pos.debt, 1)]>>
             \o DetailsOf(chain, Tail(positions))

get_curvance_position_details(chain) ==
    IF ~chain.stateOk THEN <<>> ELSE DetailsOf(chain, WithDebt(chain.raw))

----------------------------------------------------------------------------
(* The bot: discover_all_positions and check_and_notify.  reads holds what
   get_cached_or_fetch hands to the call for each source: reads.n the two
   getUserAccountData answers, reads.m the indexer's answer, reads.c the
   Curvance chain state. *)

NoInfo == [present |-> FALSE, debt |-> 0]

\* the position the Neverland block appends for a health factor and the
\* account data read for it
NeverlandPosition(ud, chat_id, address, health_factor, account_data) ==
    IF is_valid_position(health_factor, None)
    THEN <<[protocol_id   |-> "neverland",
            market_id     |-> NoMarket,
            health_factor |-> health_factor,
            threshold     |-> get_threshold_for_position(ud, chat_id, address,
                                                         "neverland", NoMarket),
            market_info   |-> IF account_data.present
                              THEN [present |-> TRUE, debt |-> account_data.debt_usd]
                              ELSE NoInfo]>>
    ELSE <<>>

\* the Neverland block of discover_all_positions
DiscoverNeverland(ud, chat_id, address, rd) ==
    [raised |-> FALSE, positions |->
        NeverlandPosition(ud, chat_id, address,
                          check_neverland_health_factor(rd.hfCall),
                          get_neverland_account_data(rd.dataCall))]

\* the Morpho block; comparing a health factor that is no number raises
\* TypeError, which ends the block with the positions appended so far
RECURSIVE MorphoPositions(_, _, _, _, _)
MorphoPositions(ud, chat_id, address, markets_data, positions) ==
    IF markets_data = <<>> THEN [raised |-> FALSE, positions |-> positions]
    ELSE LET market == Head(markets_data)
         IN  IF market.healthFactor = Unparseable
             THEN [raised |-> TRUE, positions |-> positions]
             ELSE MorphoPositions(ud, chat_id, address, Tail(markets_data),
                    positions \o
                    (IF is_valid_position(market.healthFactor, market.borrowAssetsUsd)
                     THEN <<[protocol_id   |-> "morpho",
                             market_id     |-> market.id,
                             health_factor |-> market.healthFactor,
                             threshold     |-> get_threshold_for_position(
                                                  ud, chat_id, address, "morpho", market.id),
                             market_info   |-> [present |-> TRUE,
                                                debt |-> market.borrowAssetsUsd]]>>
                     ELSE <<>>))

DiscoverMorpho(ud, chat_id, address, rd) ==
    MorphoPositions(ud, chat_id, address, get_morpho_user_markets(rd), <<>>)

\* the position the Curvance block appends for one market manager
CurvancePosition(ud, chat_id, address, market_manager, health_factor, details) ==
    IF is_valid_position(health_factor, None)
    THEN <<[protocol_id   |-> "curvance",
            market_id     |-> market_manager,
            health_factor |-> health_factor,
            threshold     |-> get_threshold_for_position(ud, chat_id, address,
                                                         "curvance", market_manager),
            market_info   |-> IF details /= <<>>
                              THEN [present |-> TRUE, debt |-> details[1].debt_amount]
                              ELSE NoInfo]>>
    ELSE <<>>

\* the Curvance block: one check_curvance_health_factor per market manager
RECURSIVE CurvancePositions(_, _, _, _, _)
CurvancePositions(ud, chat_id, address, chain, market_managers) ==
    IF market_managers = <<>> THEN <<>>
    ELSE CurvancePosition(ud, chat_id, address, Head(market_managers),
                          check_curvance_health_factor(chain, Head(market_managers)),
                          get_curvance_position_details(chain))
         \o CurvancePositions(ud, chat_id, address, chain, Tail(market_managers))

DiscoverCurvance(ud, chat_id, address, chain) ==
    [raised |-> FALSE, positions |->
        CurvancePositions(ud, chat_id, address, chain,
                          get_curvance_market_managers(chain))]

NoFilter == "none"

\* a block without its try: the exception leaves discover_all_positions
NoTryBlock(block) == block

\* try: <block> except Exception: log -- the positions appended before the
\* exception stay in the list
TryBlock(block) == [raised |-> FALSE, positions |-> block.positions]

\* the block of one protocol and what it leaves
Block(protocol_id, result) ==
    [protocol_id |-> protocol_id, raised |-> result.raised,
     positions |-> result.positions]

\* the blocks of discover_all_positions, in order
Blocks(ud, address, chat_id, filter_protocol, reads) ==
       (IF filter_protocol \in {NoFilter, "neverland"}
        THEN <<Block("neverland",
                     TryBlock(DiscoverNeverland(ud, chat_id, address, reads.n)))>>
        ELSE <<>>)
    \o (IF filter_protocol \in {NoFilter, "morpho"}
        THEN <<Block("morpho",
                     TryBlock(DiscoverMorpho(ud, chat_id, address, reads.m)))>>
        ELSE <<>>)
    \o (IF filter_protocol \in {NoFilter, "curvance"}
        THEN <<Block("curvance",
                     TryBlock(DiscoverCurvance(ud, chat_id, address, reads.c)))>>
        ELSE <<>>)

\* the positions of the blocks run one after the other, up to the first
\* exception that leaves its block
RECURSIVE RunBlocks(_, _)
RunBlocks(blocks, positions) ==
    IF blocks = <<>> THEN [raised |-> FALSE, positions |-> positions]
    ELSE IF Head(blocks).raised THEN [raised |-> TRUE, positions |-> <<>>]
    ELSE RunBlocks(Tail(blocks), positions \o Head(blocks).positions)

\* discover_all_positions(address, chat_id, filter_protocol): user_data[chat_id]
\* raises KeyError for a chat that is not in user_data
discover_all_positions(ud, address, chat_id, filter_protocol, reads) ==
    IF ~(chat_id \in DOMAIN ud /\ ud[chat_id].present)
    THEN [raised |-> TRUE, positions |-> <<>>]
    ELSE RunBlocks(Blocks(ud, address, chat_id, filter_protocol, reads), <<>>)

\* the protocols whose block one call of discover_all_positions enters
BlocksEntered(ud, address, chat_id, filter_protocol, reads) ==
    IF ~(chat_id \in DOMAIN ud /\ ud[chat_id].present) THEN {}
    ELSE {block.protocol_id :
            block \in Range(Blocks(ud, address, chat_id, filter_protocol, reads))}

\* the alert test of check_and_notify with <= for <
RECURSIVE AlertsOf_at_or_below(_, _)
AlertsOf_at_or_below(address, positions) ==
    IF positions = <<>> THEN <<>>
    ELSE LET pos == Head(positions)
         IN  (IF pos.health_factor <= pos.threshold
              THEN <<[address |-> address, health_factor |-> pos.health_factor,
                      threshold |-> pos.threshold, protocol_id |-> pos.protocol_id,
                      market_id |-> pos.market_id]>>
              ELSE <<>>) \o AlertsOf_at_or_below(address, Tail(positions))

\* the alerts check_and_notify collects from the positions of one address
RECURSIVE AlertsOf(_, _)
AlertsOf(address, positions) ==
    IF positions = <<>> THEN <<>>
    ELSE LET pos == Head(positions)
         IN  (IF pos.health_factor < pos.threshold
              THEN <<[address |-> address, health_factor |-> pos.health_factor,
                      threshold |-> pos.threshold, protocol_id |-> pos.protocol_id,
                      market_id |-> pos.market_id]>>
              ELSE <<>>) \o AlertsOf(address, Tail(positions))

----------------------------------------------------------------------------
(* The cache of get_cached_or_fetch, and discover_all_positions reading
   through it.  Time is counted in units of 15 seconds. *)

\* CACHE_TTL: 30 seconds
CACHE_TTL == 2


\* the cache keys of discover_all_positions: f"neverland_{address}",
\* f"neverland_data_{address}", f"morpho_markets_{address}",
\* "curvance_managers", f"curvance_{address}_{market_manager}" and
\* f"curvance_details_{address}_{market_manager}"
cache_key(kind, address, market_manager) == <<kind, address, market_manager>>

CacheKeys ==
    {cache_key(kind, a, NoMarket) :
        kind \in {"neverland", "neverland_data", "morpho_markets"}, a \in Addresses}
    \cup {cache_key("curvance_managers", NoAddress, NoMarket)}
    \cup {cache_key(kind, a, mm) :
        kind \in {"curvance", "curvance_details"}, a \in Addresses,
        mm \in CurvanceManagers}

\* the fetch_func of each key, given what the chain and the indexer answer
fetch_func(key, answers) ==
    CASE key[1] = "neverland"         -> check_neverland_health_factor(answers.n.hfCall)
      [] key[1] = "neverland_data"    -> get_neverland_account_data(answers.n.dataCall)
      [] key[1] = "morpho_markets"    -> get_morpho_user_markets(answers.m)
      [] key[1] = "curvance_managers" -> get_curvance_market_managers(answers.c)
      [] key[1] = "curvance"          -> check_curvance_health_factor(answers.c, key[3])
      [] key[1] = "curvance_details"  -> get_curvance_position_details(answers.c)

\* what a fetch_func returns when its call fails or finds nothing: None or []
NoValue(key) ==
    CASE key[1] \in {"neverland", "curvance"} -> None
      [] key[1] = "neverland_data" ->
            [present |-> FALSE, collateral_usd |-> 0, debt_usd |-> 0]
      [] OTHER -> <<>>

\* a key that is not in _cache
NoEntry(key) == [cached |-> FALSE, value |-> NoValue(key), timestamp |-> 0]

NoEntries == [key \in CacheKeys |-> NoEntry(key)]

\* a cache that still serves an entry at the age of CACHE_TTL
CacheHit_at_ttl(cache, key, t) ==
    cache[key].cached /\ t - cache[key].timestamp <= CACHE_TTL

\* cache_key in _cache and time() - timestamp < CACHE_TTL
CacheHit(cache, key, t) ==
    cache[key].cached /\ t - cache[key].timestamp < CACHE_TTL

\* a cache that keeps only the values that are not None or empty
StoreFetched_unless_empty(key, entry, value, t) ==
    IF value = NoValue(key) THEN entry
    ELSE [cached |-> TRUE, value |-> value, timestamp |-> t]

\* _cache[cache_key] = (value, time())
StoreFetched(key, entry, value, t) ==
    [cached |-> TRUE, value |-> value, timestamp |-> t]

\* the value get_cached_or_fetch(cache_key, fetch_func, ...) returns at time t
get_cached_or_fetch(cache, key, t, answers) ==
    IF CacheHit(cache, key, t) THEN cache[key].value ELSE fetch_func(key, answers)

\* what get_cached_or_fetch returns for each key at time t
CachedValues(cache, t, answers) ==
    [key \in CacheKeys |-> get_cached_or_fetch(cache, key, t, answers)]

\* _cache after get_cached_or_fetch was called for the keys at time t
CacheAfter_get_cached_or_fetch(cache, keys, t, answers) ==
    [key \in CacheKeys |->
        IF key \in keys /\ ~CacheHit(cache, key, t)
        THEN StoreFetched(key, cache[key], fetch_func(key, answers), t)
        ELSE cache[key]]

\* the keys the Neverland block reads: the account data only for a valid
\* health factor
NeverlandKeys(address, values) ==
    {cache_key("neverland", address, NoMarket)}
    \cup (IF is_valid_position(values[cache_key("neverland", address, NoMarket)], None)
          THEN {cache_key("neverland_data", address, NoMarket)} ELSE {})

\* the keys the Curvance block reads: the managers, the health of each, and
\* the details of each with a valid health
ManagerKeys(address, market_manager, values) ==
    {cache_key("curvance", address, market_manager)}
    \cup (IF is_valid_position(values[cache_key("curvance", address, market_manager)], None)
          THEN {cache_key("curvance_details", address, market_manager)} ELSE {})

CurvanceKeys(address, values) ==
    {cache_key("curvance_managers", NoAddress, NoMarket)}
    \cup UNION {ManagerKeys(address, mm, values) :
                  mm \in Range(values[cache_key("curvance_managers", NoAddress, NoMarket)])}

\* the keys one call of discover_all_positions reads
KeysRead(ud, address, chat_id, filter_protocol, values) ==
    IF ~(chat_id \in DOMAIN ud /\ ud[chat_id].present) THEN {}
    ELSE (IF filter_protocol \in {NoFilter, "neverland"}
          THEN NeverlandKeys(address, values) ELSE {})
         \cup (IF filter_protocol \in {NoFilter, "morpho"}
               THEN {cache_key("morpho_markets", address, NoMarket)} ELSE {})
         \cup (IF filter_protocol \in {NoFilter, "curvance"}
               THEN CurvanceKeys(address, values) ELSE {})

\* the Curvance block on the values read for each market manager
RECURSIVE CachedCurvancePositions(_, _, _, _, _)
CachedCurvancePositions(ud, chat_id, address, market_managers, values) ==
    IF market_managers = <<>> THEN <<>>
    ELSE CurvancePosition(ud, chat_id, address, Head(market_managers),
             values[cache_key("curvance", address, Head(market_managers))],
             values[cache_key("curvance_details", address, Head(market_managers))])
         \o CachedCurvancePositions(ud, chat_id, address, Tail(market_managers), values)

\* the blocks of discover_all_positions on the values get_cached_or_fetch
\* returns
CachedBlocks(ud, address, chat_id, filter_protocol, values) ==
       (IF filter_protocol \in {NoFilter, "neverland"}
        THEN <<TryBlock([raised |-> FALSE, positions |->
                  NeverlandPosition(ud, chat_id, address,
                      values[cache_key("neverland", address, NoMarket)],
                      values[cache_key("neverland_data", address, NoMarket)])])>>
        ELSE <<>>)
    \o (IF filter_protocol \in {NoFilter, "morpho"}
        THEN <<TryBlock(MorphoPositions(ud, chat_id, address,
                  values[cache_key("morpho_markets", address, NoMarket)], <<>>))>>
        ELSE <<>>)
    \o (IF filter_protocol \in {NoFilter, "curvance"}
        THEN <<TryBlock([raised |-> FALSE, positions |->
                  CachedCurvancePositions(ud, chat_id, address,
                      values[cache_key("curvance_managers", NoAddress, NoMarket)],
                      values)])>>
        ELSE <<>>)

\* discover_all_positions(address, chat_id, filter_protocol) on the values
\* get_cached_or_fetch returns
discover_through_cache(ud, address, chat_id, filter_protocol, values) ==
    IF ~(chat_id \in DOMAIN ud /\ ud[chat_id].present)
    THEN [raised |-> TRUE, positions |-> <<>>]
    ELSE RunBlocks(CachedBlocks(ud, address, chat_id, filter_protocol, values), <<>>)

----------------------------------------------------------------------------
(* The strategies of protocol_strategies_impl.py.  A PositionData is the
   record of its protocol, market_id, health_factor and the amount and
   usd_value of its collateral and its debt. *)

\* PositionData as the three strategies construct it: liquidation_drop_pct,
\* in tenths of a percent, is the default None unless the strategy passes it
PositionData(protocol_id, market_id, health_factor, collateral, debt) ==
    [protocol_id |-> protocol_id, market_id |-> market_id,
     health_factor |-> health_factor, collateral |-> collateral, debt |-> debt,
     liquidation_drop_pct |-> None]

Asset(amount, usd_value) == [amount |-> amount, usd_value |-> usd_value]

\* an adapter without its try: the exception leaves get_positions
NoExcept(body) == body

\* try: <body> except Exception: log -- and return positions: the positions
\* built before the exception are returned
ExceptException(body) == [raised |-> FALSE, positions |-> body.positions]

\* NeverlandStrategy.get_positions: the calls of protocols.py it makes catch
\* their own exceptions
NeverlandStrategy_get_positions(rd) ==
    LET health_factor == check_neverland_health_factor(rd.hfCall)
        account_data  == get_neverland_account_data(rd.dataCall)
    IN  ExceptException([raised |-> FALSE, positions |->
        IF health_factor = None \/ health_factor = 0 \/ health_factor > HF_MAX
        THEN <<>>
        ELSE <<PositionData("neverland", "neverland", health_factor,
                   Asset(0, IF account_data.present THEN account_data.collateral_usd ELSE 0),
                   Asset(0, IF account_data.present THEN account_data.debt_usd ELSE 0))>>])

\* the loop of MorphoStrategy.get_positions: float() of a health factor that
\* is no number raises ValueError, with the positions built so far; the
\* markets of get_morpho_user_markets carry no borrowAmountHuman and no
\* liquidationDropPct, so the debt amount is the default 0 and the
\* liquidation_drop_pct passed is None
RECURSIVE MorphoStrategyPositions(_, _)
MorphoStrategyPositions(markets_data, positions) ==
    IF markets_data = <<>> THEN [raised |-> FALSE, positions |-> positions]
    ELSE LET market == Head(markets_data)
             hf     == market.healthFactor
         IN  IF hf = None \/ hf = 0
             THEN MorphoStrategyPositions(Tail(markets_data), positions)
             ELSE IF hf = Unparseable THEN [raised |-> TRUE, positions |-> positions]
             ELSE IF hf > HF_MAX \/ market.borrowAssetsUsd = 0
             THEN MorphoStrategyPositions(Tail(markets_data), positions)
             ELSE MorphoStrategyPositions(Tail(markets_data),
                     positions \o <<PositionData("morpho", market.id, hf,
                                        Asset(0, 0),
                                        Asset(0, market.borrowAssetsUsd))>>)

\* MorphoStrategy.get_positions
MorphoStrategy_get_positions(rd) ==
    ExceptException(MorphoStrategyPositions(get_morpho_user_markets(rd), <<>>))

\* CurvanceStrategy's tables.  The borrowable cToken of each market manager:
NoToken == "none"

MARKET_MANAGER_TO_BORROWABLE_CTOKEN(mm) ==
    CASE mm = "mm1" -> "b1"
      [] mm = "mm2" -> "b2"
      [] OTHER      -> NoToken

BorrowableCTokens == {"b1", "b2"}

\* the keys of CTOKEN_TO_COLLATERAL_SYMBOL
CTOKEN_TO_COLLATERAL_SYMBOL == {"ct1", "ct2", "b1", "loaznd"}

wmon_ctoken      == "ct1"
loaznd_ctoken    == "loaznd"
loaznd_mm        == "mm_loaznd"
earnausd_wmon_mm == "mm1"

\* the cToken addresses in ascending order, as sorted() compares them
AddressOrder == <<"b1", "ct2", "ct3", "ct1", "b2", "loaznd">>

AddressRank(ct) == CHOOSE i \in 1..Len(AddressOrder) : AddressOrder[i] = ct

\* x plus the elements of ys that are not in x yet
RECURSIVE AppendMissing(_, _)
AppendMissing(xs, ys) ==
    IF ys = <<>> THEN xs
    ELSE AppendMissing(IF Head(ys) \in Range(xs) THEN xs ELSE Append(xs, Head(ys)),
                       Tail(ys))

\* _get_market_manager_ctokens(...).get(mm, [])
ListedOf(chain, mm) == IF chain.listedOk THEN TokensListed(mm) ELSE <<>>

\* the cTokens _identify_market_manager_by_health tests for mm
mm_ctokens(chain, mm) ==
    LET bctoken == MARKET_MANAGER_TO_BORROWABLE_CTOKEN(mm)
        with_b  == AppendMissing(ListedOf(chain, mm),
                                 IF bctoken /= NoToken THEN <<bctoken>> ELSE <<>>)
    IN  IF mm = earnausd_wmon_mm
        THEN AppendMissing(with_b, <<"ct1", "ct2">>)
        ELSE with_b

\* sort_key: WMON first when prioritized, then the known cTokens, then the
\* others, each class by address
sort_key(ct, prioritize_wmon) ==
    IF prioritize_wmon /\ ct = wmon_ctoken THEN <<0, AddressRank(ct)>>
    ELSE IF ct \in CTOKEN_TO_COLLATERAL_SYMBOL THEN <<1, AddressRank(ct)>>
    ELSE <<2, AddressRank(ct)>>

KeyLess(a, b) == a[1] < b[1] \/ (a[1] = b[1] /\ a[2] < b[2])

RECURSIVE SortedTokens(_, _)
SortedTokens(tokens, prioritize_wmon) ==
    IF tokens = {} THEN <<>>
    ELSE LET first == CHOOSE ct \in tokens : \A other \in tokens \ {ct} :
                          KeyLess(sort_key(ct, prioritize_wmon),
                                  sort_key(other, prioritize_wmon))
         IN  <<first>> \o SortedTokens(tokens \ {first}, prioritize_wmon)

Abs(x) == IF x < 0 THEN -x ELSE x

\* whether _identify_market_manager_by_health takes the answer of one probe:
\* amounts and healths are in tenths, so 0.1 is 1 and 19.0 is 190
AcceptsProbe(r, test_ctoken, collateral_amount, debt_amount) ==
    /\ ~r.raises /\ ~r.err /\ r.raw /= 0 /\ r.raw <= RAW_CAP
    /\ LET test_health == Tenths(r.raw, WAD)
           zero_collateral == collateral_amount = 0
           is_wmon   == test_ctoken = wmon_ctoken
           is_loaznd == test_ctoken = loaznd_ctoken
           is_known_ctoken == test_ctoken \in CTOKEN_TO_COLLATERAL_SYMBOL
           reasonable_health ==
               /\ 1 < test_health /\ test_health < 50
               /\ Abs(test_health - collateral_amount) > 1
           zero_collateral_match ==
               /\ zero_collateral /\ 1 < test_health /\ test_health < 20
               /\ Abs(test_health - collateral_amount) > 1
           is_wmon_for_zero ==
               zero_collateral /\ is_wmon /\ 190 < debt_amount /\ debt_amount < 230
           known_collateral_match ==
               \/ is_known_ctoken /\ reasonable_health
               \/ is_loaznd /\ 100 < debt_amount /\ debt_amount < 125
       IN  /\ test_health /= collateral_amount
           /\ \/ reasonable_health \/ known_collateral_match
              \/ zero_collateral_match \/ is_wmon_for_zero

NotFound == [found |-> FALSE, mm |-> NoToken, cToken |-> NoToken, hf |-> None]

\* the first tested cToken of mm whose probe is taken
RECURSIVE IdentifyToken(_, _, _, _, _)
IdentifyToken(chain, mm, tokens, collateral_amount, debt_amount) ==
    IF tokens = <<>> THEN NotFound
    ELSE LET test_ctoken == Head(tokens)
             borrowable_tokens ==
                 AppendMissing(IF MARKET_MANAGER_TO_BORROWABLE_CTOKEN(mm) /= NoToken
                               THEN <<MARKET_MANAGER_TO_BORROWABLE_CTOKEN(mm)>> ELSE <<>>,
                               ListedOf(chain, mm))
         IN  IF /\ test_ctoken \notin BorrowableCTokens
                /\ borrowable_tokens /= <<>>
                /\ AcceptsProbe(getPositionHealth(chain, mm, test_ctoken),
                                test_ctoken, collateral_amount, debt_amount)
             THEN [found |-> TRUE, mm |-> mm, cToken |-> test_ctoken, hf |-> None]
             ELSE IdentifyToken(chain, mm, Tail(tokens), collateral_amount, debt_amount)

\* a hit, or what the search turns to next
FoundOr(hit, otherwise) == IF hit.found THEN hit ELSE otherwise

\* prioritize_wmon
prioritize_wmon(collateral_amount, debt_amount) ==
    collateral_amount = 0 /\ 190 < debt_amount /\ debt_amount < 230

\* _identify_market_manager_by_health
RECURSIVE identify_market_manager_by_health(_, _, _, _)
identify_market_manager_by_health(chain, collateral_amount, debt_amount, market_managers) ==
    IF market_managers = <<>> THEN NotFound
    ELSE FoundOr(IdentifyToken(chain, Head(market_managers),
                     SortedTokens(Range(mm_ctokens(chain, Head(market_managers))),
                                  prioritize_wmon(collateral_amount, debt_amount)),
                     collateral_amount, debt_amount),
                 identify_market_manager_by_health(chain, collateral_amount,
                                                   debt_amount, Tail(market_managers)))

\* one probe of the first loop: the manager is taken when it has a
\* borrowable cToken and the probe succeeds with a health other than the
\* collateral amount
FirstLoopProbe(r, mm_address, cToken, collateral_amount) ==
    IF /\ MARKET_MANAGER_TO_BORROWABLE_CTOKEN(mm_address) /= NoToken
       /\ ~r.raises /\ ~r.err /\ r.raw /= 0 /\ r.raw <= RAW_CAP
       /\ Tenths(r.raw, WAD) /= collateral_amount
    THEN [found |-> TRUE, mm |-> mm_address, cToken |-> cToken,
          hf |-> Tenths(r.raw, WAD)]
    ELSE NotFound

\* the first loop of get_positions, for a valid cToken: the first manager
\* it takes
RECURSIVE ProbeWithCToken(_, _, _, _)
ProbeWithCToken(chain, cToken, collateral_amount, market_managers) ==
    IF market_managers = <<>> THEN NotFound
    ELSE FoundOr(FirstLoopProbe(getPositionHealth(chain, Head(market_managers), cToken),
                                Head(market_managers), cToken, collateral_amount),
                 ProbeWithCToken(chain, cToken, collateral_amount, Tail(market_managers)))

\* the managers in the order the second step tries them
market_managers_sorted(market_managers, collateral_amount, debt_amount) ==
    LET front(mm) == IF mm \in Range(market_managers)
                     THEN <<mm>> \o SelectSeq(market_managers, LAMBDA m : m /= mm)
                     ELSE market_managers
    IN  IF 100 < debt_amount /\ debt_amount < 125 THEN front(loaznd_mm)
        ELSE IF 190 < debt_amount /\ debt_amount < 230 /\ collateral_amount = 0
        THEN front(earnausd_wmon_mm)
        ELSE market_managers

\* the health read for the identified manager, None when the read fails
WithProbedHealth(hit, r) ==
    [hit EXCEPT !.hf = IF ~r.raises /\ ~r.err /\ r.raw > 0 /\ r.raw <= RAW_CAP
                       THEN Tenths(r.raw, WAD) ELSE None]

ProbeIdentified(chain, hit) ==
    IF ~hit.found THEN NotFound
    ELSE WithProbedHealth(hit, getPositionHealth(chain, hit.mm, hit.cToken))

\* the second step, for a zero cToken: identify the manager by its health,
\* then read the health of the identified manager
IdentifyAndProbe(chain, collateral_amount, debt_amount, market_managers) ==
    ProbeIdentified(chain,
        identify_market_manager_by_health(chain, collateral_amount, debt_amount,
            market_managers_sorted(market_managers, collateral_amount, debt_amount)))

\* one probe of the third step: any health above 0 and up to 1e10
ThirdLoopProbe(r, mm_address, cToken) ==
    IF /\ MARKET_MANAGER_TO_BORROWABLE_CTOKEN(mm_address) /= NoToken
       /\ ~r.raises /\ ~r.err /\ r.raw > 0
       /\ Tenths(r.raw, WAD) <= HF_MAX
    THEN [found |-> TRUE, mm |-> mm_address, cToken |-> cToken,
          hf |-> Tenths(r.raw, WAD)]
    ELSE NotFound

\* the third step: every manager again with the original cToken
RECURSIVE ProbeOriginalCToken(_, _, _)
ProbeOriginalCToken(chain, cToken, market_managers) ==
    IF market_managers = <<>> THEN NotFound
    ELSE FoundOr(ThirdLoopProbe(getPositionHealth(chain, Head(market_managers), cToken),
                                Head(market_managers), cToken),
                 ProbeOriginalCToken(chain, cToken, Tail(market_managers)))

\* the three steps for one raw position, each given what the one before found
FirstStep(chain, position, market_managers) ==
    IF position.cToken /= ZeroToken
    THEN ProbeWithCToken(chain, position.cToken, Tenths(position.collateral, WAD),
                         market_managers)
    ELSE NotFound

SecondStep(chain, position, market_managers, first) ==
    IF ~first.found /\ position.cToken = ZeroToken
    THEN IdentifyAndProbe(chain, Tenths(position.collateral, WAD),
                          Tenths(position.debt, WAD), market_managers)
    ELSE first

ThirdStep(chain, position, market_managers, second) ==
    IF ~second.found
    THEN ProbeOriginalCToken(chain, position.cToken, market_managers)
    ELSE second

\* the manager and health the three steps find for one raw position
FindMarketManager(chain, position, market_managers) ==
    ThirdStep(chain, position, market_managers,
        SecondStep(chain, position, market_managers,
            FirstStep(chain, position, market_managers)))

\* not health_factor: None and 0.0 are false
NoHealth(hf) == hf = None \/ hf = 0

\* mm_health_cache: the first health found for a manager is the health of
\* every later position found under it
CachedHealth(cache, found) ==
    IF found.found /\ ~NoHealth(found.hf) /\ cache[found.mm] /= None
    THEN [found EXCEPT !.hf = cache[found.mm]]
    ELSE found

CacheAfter(cache, found) ==
    IF found.found /\ ~NoHealth(found.hf) /\ cache[found.mm] = None
    THEN [cache EXCEPT ![found.mm] = found.hf]
    ELSE cache

\* a position without a health takes the health getAllDynamicState gave it
\* and the first manager of the list
FallbackToState(found, position, market_managers) ==
    IF /\ NoHealth(found.hf) /\ position.health > 0
       /\ Tenths(position.health, WAD) <= HF_MAX
    THEN [found  |-> market_managers /= <<>>,
          mm     |-> IF market_managers /= <<>> THEN market_managers[1] ELSE NoToken,
          cToken |-> found.cToken,
          hf     |-> Tenths(position.health, WAD)]
    ELSE found

\* the cToken's decimals(), 18 when the call fails; ct2 is a token with one
\* decimal less than 18
TokenDivisor(chain, cToken) ==
    IF chain.tokenOk /\ cToken = "ct2" THEN 1 ELSE WAD

\* the entry of one raw position: none when it has no health, a health above
\* 1e10 or no manager
ResolvedEntry(chain, position, final) ==
    IF NoHealth(final.hf) \/ final.hf > HF_MAX \/ ~final.found
    THEN <<>>
    ELSE <<[market_manager    |-> final.mm,
            health_factor     |-> final.hf,
            cToken            |-> position.cToken,
            collateral_amount |-> Tenths(position.collateral,
                                         TokenDivisor(chain, position.cToken)),
            debt_amount       |-> Tenths(position.debt, WAD)]>>

RECURSIVE ResolvedPositions(_, _, _, _)

\* the first raw position with what the three steps found for it, then the
\* others with the cache it leaves
ResolveWith(chain, positions, market_managers, cache, found) ==
    ResolvedEntry(chain, Head(positions),
                  FallbackToState(CachedHealth(cache, found), Head(positions),
                                  market_managers))
    \o ResolvedPositions(chain, Tail(positions), market_managers,
                         CacheAfter(cache, found))

\* the raw positions that get a manager and a health, with their amounts, in
\* the order of getAllDynamicState
ResolvedPositions(chain, positions, market_managers, cache) ==
    IF positions = <<>> THEN <<>>
    ELSE ResolveWith(chain, positions, market_managers, cache,
                     FindMarketManager(chain, Head(positions), market_managers))

\* one group per resolved position: the grouping without its merge
RECURSIVE GroupEach(_)
GroupEach(resolved) ==
    IF resolved = <<>> THEN <<>>
    ELSE <<[market_manager   |-> Head(resolved).market_manager,
            health_factor    |-> Head(resolved).health_factor,
            total_collateral |-> Head(resolved).collateral_amount,
            total_debt       |-> Head(resolved).debt_amount]>>
         \o GroupEach(Tail(resolved))

\* mm_positions after one more resolved position: a new group with its
\* health, or its amounts added to the group of its manager
AddToGroup(groups, r) ==
    IF \E i \in 1..Len(groups) : groups[i].market_manager = r.market_manager
    THEN [i \in 1..Len(groups) |->
             IF groups[i].market_manager = r.market_manager
             THEN [groups[i] EXCEPT
                      !.total_collateral = @ + r.collateral_amount,
                      !.total_debt       = @ + r.debt_amount]
             ELSE groups[i]]
    ELSE Append(groups, [market_manager   |-> r.market_manager,
                         health_factor    |-> r.health_factor,
                         total_collateral |-> r.collateral_amount,
                         total_debt       |-> r.debt_amount])

RECURSIVE GroupInto(_, _)
GroupInto(groups, resolved) ==
    IF resolved = <<>> THEN groups
    ELSE GroupInto(AddToGroup(groups, Head(resolved)), Tail(resolved))

\* mm_positions: the groups by market manager, in the order they were made
GroupByManager(resolved) == GroupInto(<<>>, resolved)

\* one PositionData per group
RECURSIVE GroupPositions(_)
GroupPositions(groups) ==
    IF groups = <<>> THEN <<>>
    ELSE LET mm_data == Head(groups)
         IN  <<PositionData("curvance", mm_data.market_manager, mm_data.health_factor,
                   Asset(mm_data.total_collateral, mm_data.total_collateral),
                   Asset(mm_data.total_debt, mm_data.total_debt))>>
             \o GroupPositions(Tail(groups))

EmptyCache == [mm \in CurvanceManagers |-> None]

\* the debt-bearing raw positions with the manager and health found for each
CurvanceResolved(chain) ==
    ResolvedPositions(chain, WithDebt(chain.raw), get_curvance_market_managers(chain),
                      EmptyCache)

\* CurvanceStrategy.get_positions: a failing getAllDynamicState and every
\* failing probe are caught where they are called
CurvanceStrategy_get_positions(chain) ==
    ExceptException([raised |-> FALSE, positions |->
        IF ~chain.stateOk \/ chain.raw = <<>> THEN <<>>
        ELSE GroupPositions(GroupByManager(CurvanceResolved(chain)))])

----------------------------------------------------------------------------
(* The symbol lookups of CurvanceStrategy.  The position of each market
   manager has a collateral cToken that is none of the keys of
   CTOKEN_TO_COLLATERAL_SYMBOL; the borrowable cToken of mm1 holds AUSD and
   that of mm2 USDC. *)

\* the addresses symbol() is called for
SymbolTokens == {"cwbtc", "cweth", "wbtc", "weth", "ausd", "usdc"}

\* the addresses asset() is called for
AssetCTokens == {"cwbtc", "cweth"} \cup BorrowableCTokens

\* what symbol() of each token answers when the call succeeds
symbol_of ==
    "cwbtc" :> "cWBTC" @@ "cweth" :> "cWETH" @@ "wbtc" :> "WBTC"
        @@ "weth" :> "WETH" @@ "ausd" :> "AUSD" @@ "usdc" :> "USDC"

\* what asset() of each cToken answers when the call succeeds
asset_of ==
    "cwbtc" :> "wbtc" @@ "cweth" :> "weth" @@ "b1" :> "ausd" @@ "b2" :> "usdc"

\* the collateral cToken of the position in each market manager
collateral_ctoken == "mm1" :> "cwbtc" @@ "mm2" :> "cweth"

MARKET_MANAGER_TO_COLLATERAL_SYMBOL == "mm1" :> "WBTC" @@ "mm2" :> "WETH"

\* a key that a cache dict does not hold
NotCached == "absent"

\* Python's None, where an asset address is expected
NoAsset == "None"

\* the caches as __init__ leaves them
EmptySymbolCache == [t \in SymbolTokens |-> NotCached]
EmptyAssetCache  == [c \in AssetCTokens |-> NotCached]

\* _normalize_ctoken_symbol: '?' stays; the leading c goes when an upper-case
\* letter follows it
_normalize_ctoken_symbol(symbol) ==
    CASE symbol = "cWBTC" -> "WBTC"
      [] symbol = "cWETH" -> "WETH"
      [] OTHER            -> symbol

\* _get_ctoken_asset: the cached answer when there is one, else the answer of
\* asset(), and None when the call fails; either is put in the cache
_get_ctoken_asset(ac, ok, ctoken) ==
    IF ac[ctoken] /= NotCached THEN [value |-> ac[ctoken], ac |-> ac]
    ELSE LET asset == IF ok THEN asset_of[ctoken] ELSE NoAsset
         IN  [value |-> asset, ac |-> [ac EXCEPT ![ctoken] = asset]]

\* _get_token_symbol: the cached answer when there is one, else the answer of
\* symbol(), and '?' when the call fails; either is put in the cache
_get_token_symbol(sc, ok, token) ==
    IF sc[token] /= NotCached THEN [value |-> sc[token], sc |-> sc]
    ELSE LET symbol == IF ok THEN symbol_of[token] ELSE "?"
         IN  [value |-> symbol, sc |-> [sc EXCEPT ![token] = symbol]]

\* _get_collateral_symbol for a cToken outside the known mapping: the symbol
\* of the cToken, else that of its asset, else the mapping of the manager
_get_collateral_symbol(sc, ac, calls, cToken, market_manager) ==
    LET own   == _get_token_symbol(sc, calls.symbol, cToken)
        asset == _get_ctoken_asset(ac, calls.asset, cToken)
        under == _get_token_symbol(own.sc, calls.symbol, asset.value)
    IN  IF _normalize_ctoken_symbol(own.value) /= "?"
        THEN [value |-> _normalize_ctoken_symbol(own.value), sc |-> own.sc, ac |-> ac]
        ELSE IF asset.value = NoAsset
        THEN [value |-> MARKET_MANAGER_TO_COLLATERAL_SYMBOL[market_manager],
              sc |-> own.sc, ac |-> asset.ac]
        ELSE IF _normalize_ctoken_symbol(under.value) /= "?"
        THEN [value |-> _normalize_ctoken_symbol(under.value),
              sc |-> under.sc, ac |-> asset.ac]
        ELSE [value |-> MARKET_MANAGER_TO_COLLATERAL_SYMBOL[market_manager],
              sc |-> under.sc, ac |-> asset.ac]

\* _get_debt_symbol: the symbol of the asset of the manager's borrowable
\* cToken, '?' without an asset
_get_debt_symbol(sc, ac, calls, market_manager) ==
    LET asset == _get_ctoken_asset(ac, calls.asset,
                                   MARKET_MANAGER_TO_BORROWABLE_CTOKEN(market_manager))
        under == _get_token_symbol(sc, calls.symbol, asset.value)
    IN  IF asset.value = NoAsset THEN [value |-> "?", sc |-> sc, ac |-> asset.ac]
        ELSE [value |-> under.value, sc |-> under.sc, ac |-> asset.ac]

\* the symbols the chain holds for the position in a market manager
RealSymbols(market_manager) ==
    [market_manager |-> market_manager,
     collateral |-> _normalize_ctoken_symbol(symbol_of[collateral_ctoken[market_manager]]),
     debt |-> symbol_of[asset_of[MARKET_MANAGER_TO_BORROWABLE_CTOKEN(market_manager)]]]

\* no position reported
NoReport == [market_manager |-> NoMarket, collateral |-> "?", debt |-> "?"]

\* every call of the chain succeeds
AllCallsSucceed == [symbol |-> TRUE, asset |-> TRUE]

\* the strategy as __init__ leaves it, the chain answering every call
SymIdle ==
    /\ _symbol_cache = EmptySymbolCache
    /\ _ctoken_asset_cache = EmptyAssetCache
    /\ rpc = AllCallsSucceed
    /\ symPc = "idle"
    /\ reported = NoReport

----------------------------------------------------------------------------
(* ProtocolManager of protocol_strategy.py.  outcomes says of each registered
   strategy whether its get_positions returns or raises; reads holds what the
   chain and the indexer answer. *)

\* ProtocolManager.strategies: the registered protocol ids, in the order of
\* registration
strategies == <<"neverland", "morpho", "curvance">>

\* strategy.get_positions(user_address)
get_positions(protocol_id, outcomes, reads) ==
    IF outcomes[protocol_id] = "raises" THEN [raised |-> TRUE, positions |-> <<>>]
    ELSE CASE protocol_id = "neverland" -> NeverlandStrategy_get_positions(reads.n)
           [] protocol_id = "morpho"    -> MorphoStrategy_get_positions(reads.m)
           [] protocol_id = "curvance"  -> CurvanceStrategy_get_positions(reads.c)

\* strategies_to_check without the filter
strategies_to_check_all(filter_protocol) == strategies

\* strategies_to_check
strategies_to_check(filter_protocol) ==
    IF filter_protocol = NoFilter THEN strategies ELSE <<filter_protocol>>

\* try: positions = strategy.get_positions(...) except Exception: log
TryFetch(fetched) ==
    [raised |-> FALSE,
     positions |-> IF fetched.raised THEN <<>> ELSE fetched.positions]

\* what the guarded fetch of each strategy to check leaves
Fetches(to_check, outcomes, reads) ==
    [i \in 1..Len(to_check) |-> TryFetch(get_positions(to_check[i], outcomes, reads))]

\* the loop of get_all_positions: the positions of the fetches, one after
\* the other, up to the first exception that leaves its fetch
RECURSIVE ExtendAll(_, _)
ExtendAll(fetches, all_positions) ==
    IF fetches = <<>> THEN [raised |-> FALSE, positions |-> all_positions]
    ELSE IF Head(fetches).raised THEN [raised |-> TRUE, positions |-> <<>>]
    ELSE ExtendAll(Tail(fetches), all_positions \o Head(fetches).positions)

\* ProtocolManager.get_all_positions(user_address, filter_protocol)
get_all_positions(filter_protocol, outcomes, reads) ==
    IF filter_protocol /= NoFilter /\ filter_protocol \notin Range(strategies)
    THEN [raised |-> FALSE, positions |-> <<>>]
    ELSE ExtendAll(Fetches(strategies_to_check(filter_protocol), outcomes, reads), <<>>)

\* fetch_positions of get_all_positions_async: the result of the thread that
\* ran get_positions, [] when it raised
fetch_positions(fetched) == IF fetched.raised THEN <<>> ELSE fetched.positions

\* the flattening of the results in the order the tasks finished
RECURSIVE FlattenResults_as_completed(_, _)
FlattenResults_as_completed(to_check, results) ==
    IF to_check = <<>> THEN <<>>
    ELSE fetch_positions(results[completed[Len(completed) + 1 - Len(to_check)]])
         \o FlattenResults_as_completed(Tail(to_check), results)

\* the results of asyncio.gather, flattened in the order of the strategies
RECURSIVE FlattenResults(_, _)
FlattenResults(to_check, results) ==
    IF to_check = <<>> THEN <<>>
    ELSE fetch_positions(results[Head(to_check)])
         \o FlattenResults(Tail(to_check), results)

----------------------------------------------------------------------------
(* What the chain and the indexer may answer *)

AccountData(debt, hf) == [ok |-> TRUE, collateral |-> 30, debt |-> debt, hf |-> hf]

\* the answers to the two getUserAccountData calls of one discovery
NeverlandReads ==
    [hfCall   : {FailedAccountData} \cup {AccountData(20, hf) : hf \in {0, 12, 13, MAX_UINT}},
     dataCall : {FailedAccountData} \cup {AccountData(debt, 13) : debt \in {0, 20}}]

QuietNeverland == [hfCall |-> FailedAccountData, dataCall |-> FailedAccountData]

SweepNeverland ==
    {QuietNeverland,
     [hfCall |-> AccountData(20, 12), dataCall |-> AccountData(20, 12)],
     [hfCall |-> AccountData(20, 13), dataCall |-> AccountData(0, MAX_UINT)]}

MarketPosition(uniqueKey, healthFactor, borrowAssetsUsd) ==
    [uniqueKey |-> uniqueKey, healthFactor |-> healthFactor,
     borrowAssetsUsd |-> borrowAssetsUsd]

MorphoAnswer(positions) == [status |-> "ok", positions |-> positions]

FirstMarketPositions ==
    {MarketPosition("m1", hf, borrow) :
        hf \in {None, -5, 0, 12, 13, Unparseable, HF_MAX + 1},
        borrow \in {None, 0, 20, Unparseable}}
    \cup {MarketPosition(NoMarket, 12, 20)}

SecondMarketPositions ==
    {MarketPosition("m2", hf, 20) : hf \in {12, 13, Unparseable}}

\* the indexer is down, answers with an error status or with a body that
\* cannot be read to its end, or lists up to two market positions
MorphoReads ==
    {[status |-> "down", positions |-> <<>>], [status |-> "error", positions |-> <<>>],
     [status |-> "malformed", positions |-> <<MarketPosition("m1", 12, 20)>>],
     MorphoAnswer(<<>>)}
    \cup {MorphoAnswer(<<p>>) : p \in FirstMarketPositions}
    \cup {MorphoAnswer(<<p, q>>) : p \in FirstMarketPositions, q \in SecondMarketPositions}

QuietMorpho == MorphoAnswer(<<>>)

SweepMorpho ==
    {QuietMorpho,
     MorphoAnswer(<<MarketPosition("m1", 12, 20)>>),
     MorphoAnswer(<<MarketPosition("m1", 12, 20), MarketPosition("m2", 11, 20)>>),
     MorphoAnswer(<<MarketPosition("m1", Unparseable, 20)>>),
     MorphoAnswer(<<MarketPosition("m1", 13, 20), MarketPosition("m2", Unparseable, 20)>>)}

\* the collateral each cToken's raw position holds
CollateralOf(cToken) ==
    CASE cToken = "ct1" -> 11
      [] cToken = "ct2" -> 5
      [] cToken = "ct3" -> 7
      [] OTHER          -> 0

\* the manager whose market lists the cToken
ManagerOf(cToken) == IF cToken = "ct3" THEN "mm2" ELSE "mm1"

RawPosition(cToken, debt, health, owner) ==
    [cToken |-> cToken, collateral |-> CollateralOf(cToken), debt |-> debt,
     health |-> health, owner |-> owner]

StateHealths == {0, 14, MAX_UINT}

\* one raw position of getAllDynamicState: of a listed cToken, in the market
\* of its manager, or of the zero cToken, in the market of either manager
RawPositions ==
    {RawPosition(ct, debt, health, ManagerOf(ct)) :
        ct \in {"ct1", "ct2", "ct3"}, debt \in {0, 20}, health \in StateHealths}
    \cup {RawPosition(ZeroToken, debt, health, mm) :
        debt \in {20, 200}, health \in StateHealths, mm \in CurvanceManagers}

SecondRawPositions ==
    {RawPosition("ct2", 20, 0, "mm1"), RawPosition("ct2", 20, 14, "mm1"),
     RawPosition("ct3", 20, 0, "mm2"), RawPosition(ZeroToken, 20, 14, "mm1")}

RawLists ==
    {<<>>} \cup {<<p>> : p \in RawPositions}
    \cup {<<p, q>> : p \in {r \in RawPositions : r.debt > 0 /\ r.health = 14},
                     q \in SecondRawPositions}

Registries ==
    {[ok |-> FALSE, list |-> <<>>], [ok |-> TRUE, list |-> <<"mm2", "mm1">>],
     [ok |-> TRUE, list |-> <<"mm1">>]}

Chain(registry, raw, health1, miss, tokenOk) ==
    [registryOk |-> registry.ok, registry |-> registry.list,
     stateOk |-> TRUE, raw |-> raw,
     mmHealth |-> [mm \in CurvanceManagers |-> IF mm = "mm1" THEN health1 ELSE 16],
     miss |-> miss, tokenOk |-> tokenOk, listedOk |-> tokenOk]

\* getAllDynamicState fails
QuietChain ==
    [Chain([ok |-> FALSE, list |-> <<>>], <<>>, 13, PositionHealthError, TRUE)
        EXCEPT !.stateOk = FALSE]

CurvanceReads ==
    {QuietChain}
    \cup {Chain(registry, raw, health1, miss, tokenOk) :
            registry \in Registries, raw \in RawLists,
            health1 \in {0, 11, 13, 2000},
            miss \in {PositionHealthError, PositionHealthZero, PositionHealthFails},
            tokenOk \in BOOLEAN}

SweepCurvance ==
    {QuietChain,
     Chain([ok |-> FALSE, list |-> <<>>], <<RawPosition("ct1", 20, 14, "mm1")>>,
           13, PositionHealthError, TRUE),
     Chain([ok |-> TRUE, list |-> <<"mm2", "mm1">>],
           <<RawPosition("ct1", 20, 14, "mm1"), RawPosition("ct2", 20, 0, "mm1")>>,
           11, PositionHealthZero, TRUE),
     Chain([ok |-> TRUE, list |-> <<"mm1">>], <<RawPosition("ct3", 20, 0, "mm2")>>,
           13, PositionHealthFails, FALSE)}

QuietReads == [n |-> QuietNeverland, m |-> QuietMorpho, c |-> QuietChain]

SweepReads == [n : SweepNeverland, m : SweepMorpho, c : SweepCurvance]

\* answers of the chain and the indexer in which each protocol holds one
\* position
BusyWorld ==
    [n |-> [hfCall |-> AccountData(20, 12), dataCall |-> AccountData(20, 12)],
     m |-> MorphoAnswer(<<MarketPosition("m1", 12, 20)>>),
     c |-> Chain([ok |-> FALSE, list |-> <<>>], <<RawPosition("ct1", 20, 14, "mm1")>>,
                 13, PositionHealthError, TRUE)]

\* the answers a call with this filter may meet: every answer of the
\* filtered protocol while the other protocols hold a position each, and a
\* few of each protocol when all are asked
ReadsFor(filter_protocol) ==
    CASE filter_protocol = "neverland" -> [n : NeverlandReads, m : {BusyWorld.m}, c : {BusyWorld.c}]
      [] filter_protocol = "morpho"    -> [n : {BusyWorld.n}, m : MorphoReads, c : {BusyWorld.c}]
      [] filter_protocol = "curvance"  -> [n : {BusyWorld.n}, m : {BusyWorld.m}, c : CurvanceReads]
      [] filter_protocol = NoFilter    -> SweepReads
      [] OTHER                         -> {BusyWorld}

\* the filters a caller may give: none, a protocol, or a name that is none
Filters == ProtocolIds \cup {NoFilter, "euler"}

----------------------------------------------------------------------------
(* Specifications *)

NoResult == [raised |-> FALSE, positions |-> <<>>]
NoTasks  == [p \in ProtocolIds |-> "none"]
NoOuts   == [p \in ProtocolIds |-> NoResult]

BotIdle ==
    /\ botCall = NoCall
    /\ botResult = NoResult
    /\ alerts = <<>>
    /\ sent = <<>>

MgrIdle ==
    /\ mgrCall = NoCall
    /\ mgrResult = NoResult

AsyncIdle ==
    /\ asyncCall = NoCall
    /\ asyncPc = "idle"
    /\ task = NoTasks
    /\ asyncOut = NoOuts
    /\ completed = <<>>
    /\ asyncResult = NoResult

NoPrev == [call |-> NoCall, result |-> NoResult]

\* The entry table of a dict holds its keys in the order of insertion.  A
\* deleted key leaves its slot behind; an insertion that finds the table
\* full rebuilds it without those slots.
Deleted == "deleted"

\* the slots of the table before an insertion rebuilds it
Capacity == 3

\* the chats that are keys of user_data
Monitored(ud) == {chat_id \in DOMAIN ud : ud[chat_id].present}

\* len(user_data)
Used(table) == Cardinality({i \in DOMAIN table : table[i] /= Deleted})

IsKey(key) == key /= Deleted

\* the table after a command has changed user_data: del marks the slot of
\* the chat, user_data[chat_id] = {...} for a new chat takes the next slot
TableAfter(table, before, after) ==
    LET marked   == [i \in DOMAIN table |->
                        IF table[i] \in Monitored(after) THEN table[i] ELSE Deleted]
        inserted == SeqOf(Monitored(after) \ Monitored(before))
    IN  IF inserted = <<>> THEN marked
        ELSE IF Len(marked) >= Capacity
             THEN SelectSeq(marked, IsKey) \o inserted
             ELSE marked \o inserted

\* no sweep is running
SweepIdle ==
    /\ dk_entries = SeqOf(Monitored(user_data))
    /\ sweepPc = "idle"
    /\ di_pos = 1
    /\ di_used = 0
    /\ di_len = 0
    /\ atStart = {}
    /\ checked = {}
    /\ dropped = {}
    /\ stopped = {}

\* nothing is cached and no discovery has read through the cache
CacheIdle ==
    /\ _cache = NoEntries
    /\ now = 0
    /\ world = QuietReads
    /\ prevCall = NoPrev

DefaultOnly == add_address(EmptyUserData, "c1", "a1", 13, NoProtocol, NoMarket)

WithLevels ==
    add_address(add_address(add_address(DefaultOnly,
        "c1", "a1", 12, "morpho", NoMarket),
        "c1", "a1", 12, "curvance", "mm1"),
        "c1", "a1", 12, "neverland", NoMarket)

\* the entries a chat has in the saved file when the program starts: none,
\* one of the old format with or without its threshold, one of the new
\* format, one of another format
FileEntries ==
    {NoFileEntry, OtherFormat, NewFormat(WithLevels["c1"])}
        \cup {OldFormat(address, threshold) :
                 address \in Addresses, threshold \in {NoThr, 13}}

\* the commands of one chat against the threshold configuration the
\* program loaded
ThresholdInit ==
    /\ user_data \in {load_user_data(data).user_data : data \in [Chats -> FileEntries]}
    /\ user_data_file = save_user_data(user_data)
    /\ BotIdle /\ MgrIdle /\ AsyncIdle /\ CacheIdle /\ SweepIdle /\ SymIdle


\* the configurations discovery runs against: no chat, an address with its
\* default threshold, and the same address with a protocol and a market
\* threshold on top

AllIdle == BotIdle /\ MgrIdle /\ AsyncIdle

Init ==
    /\ user_data \in {EmptyUserData, DefaultOnly, WithLevels}
    /\ user_data_file = save_user_data(user_data)
    /\ AllIdle /\ CacheIdle /\ SweepIdle /\ SymIdle

\* the addresses of a chat, in the order of the dict
ChatAddresses(ud, chat_id) ==
    IF ud[chat_id].present
    THEN SeqOf({a \in Addresses : ud[chat_id].addresses[a].present})
    ELSE <<>>

\* the discovery with user_data.setdefault(chat_id, {}) for user_data[chat_id]
Discover_setdefault(chat_id, address) ==
    /\ AllIdle
    /\ \E filter_protocol \in Filters :
      \E reads \in ReadsFor(filter_protocol) :
        /\ botCall' = [kind |-> "discover", chat_id |-> chat_id, address |-> address,
                       filter_protocol |-> filter_protocol, reads |-> reads,
                       consulted |-> BlocksEntered(user_data, address, chat_id,
                                                   filter_protocol, reads)]
        /\ botResult' = discover_all_positions(user_data, address, chat_id,
                                               filter_protocol, reads)
        /\ user_data' = IF user_data[chat_id].present THEN user_data
                        ELSE [user_data EXCEPT ![chat_id].present = TRUE]
        /\ UNCHANGED <<user_data_file, alerts, sent>>
        /\ UNCHANGED <<mgrVars, asyncVars, cacheVars, sweepVars, symVars>>

\* a caller awaits discover_all_positions(address, chat_id, filter_protocol)
Discover(chat_id, address) ==
    /\ AllIdle
    /\ \E filter_protocol \in Filters :
      \E reads \in ReadsFor(filter_protocol) :
        /\ botCall' = [kind |-> "discover", chat_id |-> chat_id, address |-> address,
                       filter_protocol |-> filter_protocol, reads |-> reads,
                       consulted |-> BlocksEntered(user_data, address, chat_id,
                                                   filter_protocol, reads)]
        /\ botResult' = discover_all_positions(user_data, address, chat_id,
                                               filter_protocol, reads)
        /\ UNCHANGED <<alerts, sent>>
        /\ UNCHANGED <<cfgVars, mgrVars, asyncVars, cacheVars, sweepVars, symVars>>

\* the alerts of one address: none when its discovery raised
AlertsOfFound(address, found) ==
    IF found.raised THEN <<>> ELSE AlertsOf(address, found.positions)

\* the alerts of the addresses of a chat: an exception of the discovery of
\* one address skips that address
RECURSIVE CollectAlerts(_, _, _, _)
CollectAlerts(ud, chat_id, addresses, reads) ==
    IF addresses = <<>> THEN <<>>
    ELSE AlertsOfFound(Head(addresses),
                       discover_all_positions(ud, Head(addresses), chat_id, NoFilter,
                                              reads[Head(addresses)]))
         \o CollectAlerts(ud, chat_id, Tail(addresses), reads)

\* check_and_notify(context, chat_id): the alerts are collected, then sent
\* one by one until a send raises
CheckAndNotify(chat_id) ==
    /\ AllIdle
    /\ \E reads \in [Addresses -> SweepReads] :
      \E collected \in {CollectAlerts(user_data, chat_id,
                                      ChatAddresses(user_data, chat_id), reads)} :
        \E delivered \in 0..Len(collected) :
            /\ botCall' = [kind |-> "check", chat_id |-> chat_id, reads |-> reads]
            /\ alerts' = collected
            /\ sent' = SubSeq(collected, 1, delivered)
            /\ UNCHANGED botResult
            /\ UNCHANGED <<cfgVars, mgrVars, asyncVars, cacheVars, sweepVars, symVars>>

\* the handler is done and the bot waits for the next update
BotReturn ==
    /\ botCall /= NoCall
    /\ botCall' = NoCall
    /\ botResult' = NoResult
    /\ alerts' = <<>>
    /\ sent' = <<>>
    /\ UNCHANGED <<cfgVars, mgrVars, asyncVars, cacheVars, sweepVars, symVars>>

BotNext ==
    \/ \E chat_id \in Chats, address \in Addresses : Discover(chat_id, address)
    \/ \E chat_id \in Chats : CheckAndNotify(chat_id)
    \/ BotReturn

\* the commands are handled one at a time: /add leaves its reply in
\* botCall until the handler is done
ThresholdNext ==
    \/ \E chat_id \in Chats : Add(chat_id)
    \/ \E chat_id \in Chats : Remove(chat_id)
    \/ \E chat_id \in Chats : Stop(chat_id)
    \/ BotReturn

SpecThreshold == ThresholdInit /\ [][ThresholdNext]_vars

\* the program started without a saved file: user_data is empty
EmptyStoreInit ==
    /\ user_data = EmptyUserData
    /\ user_data_file = save_user_data(user_data)
    /\ BotIdle /\ MgrIdle /\ AsyncIdle /\ CacheIdle /\ SweepIdle /\ SymIdle

\* the commands of one chat against an empty store
SpecEmptyStore == EmptyStoreInit /\ [][ThresholdNext]_vars

AllReturn == [p \in ProtocolIds |-> "returns"]

\* what the strategies do in one call: with a filter, the filtered strategy
\* raises or meets any answer; without, each raises or meets one of a few
MgrInputs(filter_protocol) ==
    IF filter_protocol \in ProtocolIds
    THEN {[outcomes |-> AllReturn, reads |-> reads] : reads \in ReadsFor(filter_protocol)}
         \cup {[outcomes |-> [AllReturn EXCEPT ![filter_protocol] = "raises"],
                reads |-> QuietReads]}
    ELSE [outcomes : [ProtocolIds -> {"returns", "raises"}],
          reads : ReadsFor(filter_protocol)]

\* a caller calls manager.get_all_positions(user_address, filter_protocol)
GetAllPositions ==
    /\ AllIdle
    /\ \E filter_protocol \in Filters :
      \E input \in MgrInputs(filter_protocol) :
        /\ mgrCall' = [kind |-> "get", filter_protocol |-> filter_protocol,
                       outcomes |-> input.outcomes, reads |-> input.reads]
        /\ mgrResult' = get_all_positions(filter_protocol, input.outcomes, input.reads)
        /\ UNCHANGED <<cfgVars, botVars, asyncVars, cacheVars, sweepVars, symVars>>

MgrReturn ==
    /\ mgrCall /= NoCall
    /\ mgrCall' = NoCall
    /\ mgrResult' = NoResult
    /\ UNCHANGED <<cfgVars, botVars, asyncVars, cacheVars, sweepVars, symVars>>

MgrNext ==
    \/ GetAllPositions
    \/ MgrReturn

\* what the thread of one strategy may come back with: an exception, or the
\* positions the strategy makes of one of a few answers
AdapterOutcomes ==
    [protocol_id \in ProtocolIds |->
        {[raised |-> TRUE, positions |-> <<>>]}
        \cup {get_positions(protocol_id, AllReturn, reads) : reads \in SweepReads}]

\* a caller awaits manager.get_all_positions_async(user_address,
\* filter_protocol): an unknown filter returns at once; otherwise one thread
\* per strategy to check is started, and the strategies of hangs never return
GetAllPositionsAsync ==
    /\ AllIdle
    /\ \E filter_protocol \in Filters, hangs \in SUBSET ProtocolIds :
        /\ asyncCall' = [kind |-> "get_async", filter_protocol |-> filter_protocol]
        /\ asyncOut' = NoOuts
        /\ completed' = <<>>
        /\ asyncResult' = NoResult
        /\ IF filter_protocol /= NoFilter /\ filter_protocol \notin Range(strategies)
           THEN /\ hangs = {}
                /\ asyncPc' = "returned"
                /\ task' = NoTasks
           ELSE /\ hangs \subseteq Range(strategies_to_check(filter_protocol))
                /\ asyncPc' = "gathering"
                /\ task' = [p \in ProtocolIds |->
                              IF p \notin Range(strategies_to_check(filter_protocol))
                              THEN "none"
                              ELSE IF p \in hangs THEN "hung" ELSE "running"]
        /\ UNCHANGED <<cfgVars, botVars, mgrVars, cacheVars, sweepVars, symVars>>

\* the thread of asyncio.to_thread(strategy.get_positions, ...) comes back
ThreadReturns(protocol_id) ==
    /\ asyncPc = "gathering"
    /\ task[protocol_id] = "running"
    /\ \E fetched \in AdapterOutcomes[protocol_id] :
           asyncOut' = [asyncOut EXCEPT ![protocol_id] = fetched]
    /\ task' = [task EXCEPT ![protocol_id] = "done"]
    /\ completed' = Append(completed, protocol_id)
    /\ UNCHANGED <<asyncCall, asyncPc, asyncResult>>
    /\ UNCHANGED <<cfgVars, botVars, mgrVars, cacheVars, sweepVars, symVars>>

\* asyncio.gather has every result: they are flattened and returned
Gathered ==
    /\ asyncPc = "gathering"
    /\ \A p \in ProtocolIds : task[p] \in {"none", "done"}
    /\ asyncResult' =
           [raised |-> FALSE,
            positions |-> FlattenResults(strategies_to_check(asyncCall.filter_protocol),
                                         asyncOut)]
    /\ asyncPc' = "returned"
    /\ UNCHANGED <<asyncCall, task, asyncOut, completed>>
    /\ UNCHANGED <<cfgVars, botVars, mgrVars, cacheVars, sweepVars, symVars>>

AsyncReturn ==
    /\ asyncPc = "returned"
    /\ asyncCall' = NoCall
    /\ asyncPc' = "idle"
    /\ task' = NoTasks
    /\ asyncOut' = NoOuts
    /\ completed' = <<>>
    /\ asyncResult' = NoResult
    /\ UNCHANGED <<cfgVars, botVars, mgrVars, cacheVars, sweepVars, symVars>>

AsyncNext ==
    \/ GetAllPositionsAsync
    \/ \E protocol_id \in ProtocolIds : ThreadReturns(protocol_id)
    \/ Gathered
    \/ AsyncReturn

\* how long the clock runs
MaxTime == 3


CacheWorlds == {QuietReads, BusyWorld}

\* the first cached timestamp among the keys to run out, as the time it
\* runs out
RECURSIVE WindowEnd(_, _, _)
WindowEnd(cache, keys, t) ==
    IF keys = {} THEN t + CACHE_TTL
    ELSE LET key  == CHOOSE k \in keys : TRUE
             rest == WindowEnd(cache, keys \ {key}, t)
             ends == cache[key].timestamp + CACHE_TTL
         IN  IF ends < rest THEN ends ELSE rest

\* the call repeats the discovery in hand while the chain and the indexer
\* answer as they did for it
Repeats(chat_id, address, filter_protocol) ==
    /\ botCall.kind = "discover"
    /\ botCall.chat_id = chat_id
    /\ botCall.address = address
    /\ botCall.filter_protocol = filter_protocol
    /\ botCall.reads = world

\* a caller awaits discover_all_positions(address, chat_id, filter_protocol),
\* whose reads go through get_cached_or_fetch at the time of the call
DiscoverCached(chat_id, address) ==
    \E filter_protocol \in Filters :
      \E values \in {CachedValues(_cache, now, world)} :
        \E keys \in {KeysRead(user_data, address, chat_id, filter_protocol, values)} :
          \E cache \in {CacheAfter_get_cached_or_fetch(_cache, keys, now, world)} :
            /\ botCall' = [kind |-> "discover", chat_id |-> chat_id,
                           address |-> address, filter_protocol |-> filter_protocol,
                           reads |-> world, at |-> now, keys |-> keys,
                           fetched |-> {key \in keys : ~CacheHit(_cache, key, now)},
                           window |-> WindowEnd(cache, keys, now)]
            /\ botResult' = discover_through_cache(user_data, address, chat_id,
                                                    filter_protocol, values)
            /\ _cache' = cache
            /\ prevCall' = IF Repeats(chat_id, address, filter_protocol)
                           THEN [call |-> botCall, result |-> botResult]
                           ELSE NoPrev
            /\ UNCHANGED <<alerts, sent, now, world>>
            /\ UNCHANGED <<cfgVars, mgrVars, asyncVars, sweepVars, symVars>>

\* fifteen seconds pass
Tick ==
    /\ now < MaxTime
    /\ now' = now + 1
    /\ UNCHANGED <<_cache, world, prevCall>>
    /\ UNCHANGED <<cfgVars, botVars, mgrVars, asyncVars, sweepVars, symVars>>

\* the state of the chain and of the indexer changes
WorldChanges ==
    /\ world' \in CacheWorlds \ {world}
    /\ UNCHANGED <<_cache, now, prevCall>>
    /\ UNCHANGED <<cfgVars, botVars, mgrVars, asyncVars, sweepVars, symVars>>

CacheNext ==
    \/ \E chat_id \in Chats, address \in Addresses : DiscoverCached(chat_id, address)
    \/ Tick
    \/ WorldChanges

\* a chat with thresholds at every level, and an empty cache
CacheInit ==
    /\ user_data = WithLevels
    /\ user_data_file = save_user_data(user_data)
    /\ AllIdle /\ CacheIdle /\ SweepIdle /\ SymIdle

\* discovery through the cache while time passes and the chain changes
SpecCache == CacheInit /\ [][CacheNext]_vars

----------------------------------------------------------------------------
(* The periodic sweep: periodic_check walks the dict user_data and awaits
   check_and_notify for each chat.  discover_all_positions never suspends,
   so the sweep is suspended only in the sends of check_and_notify, and
   that is where the handlers of /add, /remove and /stop run. *)

SweepChats      == {"c1", "c2"}
SweepThresholds == {12, 13}
SweepWorlds     == [Addresses -> {QuietReads, BusyWorld}]

\* an update is handled between two sweeps, or while the sweep awaits a send
HandlerMayRun == sweepPc \in {"idle", "sending"}

\* a command handler has left user_data as ud: the dict has its keys deleted
\* or inserted, and the file is saved
Handled(ud, stops) ==
    /\ user_data' = ud
    /\ stopped' = stops
    /\ user_data_file' = IF ud /= user_data THEN save_user_data(ud)
                         ELSE user_data_file
    /\ dk_entries' = TableAfter(dk_entries, user_data, ud)
    /\ dropped' = IF sweepPc = "sending"
                  THEN dropped \cup (Monitored(user_data) \ Monitored(ud))
                  ELSE dropped
    /\ UNCHANGED <<sweepPc, di_pos, di_used, di_len, atStart, checked>>
    /\ UNCHANGED <<botVars, mgrVars, asyncVars, cacheVars, symVars>>

\* /add a1 <threshold> of a chat
AddHandled(chat_id) ==
    /\ HandlerMayRun
    /\ \E threshold \in SweepThresholds :
          Handled(add_address(user_data, chat_id, "a1", threshold, NoProtocol, NoMarket),
                  stopped \ {chat_id})

\* /remove a1 of a chat
RemoveHandled(chat_id) ==
    /\ HandlerMayRun
    /\ Handled(remove_address(user_data, chat_id, "a1", NoProtocol, NoMarket), stopped)

\* /stop of a chat
StopHandled(chat_id) ==
    /\ HandlerMayRun
    /\ Handled(stop(user_data, chat_id), stopped \cup {chat_id})

\* the job queue calls periodic_check: for chat_id in user_data makes the
\* iterator of the dict
PeriodicCheck ==
    /\ sweepPc = "idle"
    /\ sweepPc' = "next"
    /\ di_pos' = 1
    /\ di_used' = Used(dk_entries)
    /\ di_len' = Used(dk_entries)
    /\ atStart' = Monitored(user_data)
    /\ checked' = {}
    /\ dropped' = {}
    /\ UNCHANGED <<dk_entries, stopped>>
    /\ UNCHANGED <<cfgVars, botVars, mgrVars, asyncVars, cacheVars, symVars>>

\* the slots from di_pos on that hold a key
NextSlots == {i \in di_pos..Len(dk_entries) : dk_entries[i] /= Deleted}

\* RuntimeError (CPython 3.8 and later): dictionary changed size during iteration, or dictionary
\* keys changed during iteration; nothing in periodic_check catches it
IterationFails ==
    \/ di_used /= Used(dk_entries)
    \/ NextSlots /= {} /\ di_len = 0

\* check_and_notify moves on to alert k of its list: it returns after the
\* last one; else generate_rebalancing_message, which works for Morpho
\* alerts only and has no try, makes the message or raises, and the message
\* is sent.  Nothing in check_and_notify or periodic_check catches what is
\* raised there.
NotifyNext(list, k) ==
    IF k > Len(list) THEN {"next"}
    ELSE {"sending"}
         \cup (IF list[k].protocol_id = "morpho" THEN {"failed"} ELSE {})

\* the for statement asks the iterator for the next chat and awaits
\* check_and_notify for it, up to its first send
ForNext ==
    /\ sweepPc = "next"
    /\ IF IterationFails
       THEN /\ sweepPc' = "aborted"
            /\ UNCHANGED <<di_pos, di_len, checked, botVars>>
       ELSE IF NextSlots = {}
       THEN /\ sweepPc' = "done"
            /\ UNCHANGED <<di_pos, di_len, checked, botVars>>
       ELSE \E i \in {CHOOSE i \in NextSlots : \A j \in NextSlots : i <= j} :
              \E reads \in SweepWorlds :
                \E collected \in {CollectAlerts(user_data, dk_entries[i],
                                                ChatAddresses(user_data, dk_entries[i]),
                                                reads)} :
                  /\ di_pos' = i + 1
                  /\ di_len' = di_len - 1
                  /\ checked' = checked \cup {dk_entries[i]}
                  /\ botCall' = [kind |-> "check", chat_id |-> dk_entries[i],
                                 reads |-> reads]
                  /\ alerts' = collected
                  /\ sent' = <<>>
                  /\ UNCHANGED botResult
                  /\ sweepPc' \in NotifyNext(collected, 1)
    /\ UNCHANGED <<dk_entries, di_used, atStart, dropped, stopped>>
    /\ UNCHANGED <<cfgVars, mgrVars, asyncVars, cacheVars, symVars>>

\* the send the sweep awaits is done: the next alert is sent, or
\* check_and_notify returns
SendReturns ==
    /\ sweepPc = "sending"
    /\ sent' = Append(sent, alerts[Len(sent) + 1])
    /\ sweepPc' \in NotifyNext(alerts, Len(sent) + 2)
    /\ UNCHANGED <<botCall, botResult, alerts>>
    /\ UNCHANGED <<dk_entries, di_pos, di_used, di_len, atStart, checked, dropped,
                   stopped>>
    /\ UNCHANGED <<cfgVars, mgrVars, asyncVars, cacheVars, symVars>>

\* the send the sweep awaits is rejected: send_message raises
SendRaises ==
    /\ sweepPc = "sending"
    /\ sweepPc' = "failed"
    /\ UNCHANGED <<dk_entries, di_pos, di_used, di_len, atStart, checked, dropped,
                   stopped>>
    /\ UNCHANGED <<cfgVars, botVars, mgrVars, asyncVars, cacheVars, symVars>>

\* periodic_check is over, by its return or by the exception
PeriodicCheckEnds ==
    /\ sweepPc \in {"done", "aborted", "failed"}
    /\ sweepPc' = "idle"
    /\ botCall' = NoCall
    /\ botResult' = NoResult
    /\ alerts' = <<>>
    /\ sent' = <<>>
    /\ UNCHANGED <<dk_entries, di_pos, di_used, di_len, atStart, checked, dropped,
                   stopped>>
    /\ UNCHANGED <<cfgVars, mgrVars, asyncVars, cacheVars, symVars>>

SweepNext ==
    \/ \E chat_id \in SweepChats : AddHandled(chat_id)
    \/ \E chat_id \in SweepChats : RemoveHandled(chat_id)
    \/ \E chat_id \in SweepChats : StopHandled(chat_id)
    \/ PeriodicCheck
    \/ ForNext
    \/ SendReturns
    \/ SendRaises
    \/ PeriodicCheckEnds

\* two chats, none monitored yet
SweepInit ==
    /\ user_data = [chat_id \in SweepChats |-> NoChatData]
    /\ user_data_file = save_user_data(user_data)
    /\ AllIdle /\ CacheIdle /\ SweepIdle /\ SymIdle

\* the periodic sweep and the commands handled while it awaits its sends
SpecSweep == SweepInit /\ [][SweepNext]_vars

----------------------------------------------------------------------------
(* One CurvanceStrategy instance and the node it calls *)

\* the symbol lookups of get_positions for an address with a position in
\* one market manager
GetSymbols(market_manager) ==
    /\ symPc = "idle"
    /\ LET c == _get_collateral_symbol(_symbol_cache, _ctoken_asset_cache, rpc,
                                       collateral_ctoken[market_manager], market_manager)
           d == _get_debt_symbol(c.sc, c.ac, rpc, market_manager)
       IN  /\ reported' = [market_manager |-> market_manager,
                           collateral |-> c.value, debt |-> d.value]
           /\ _symbol_cache' = d.sc
           /\ _ctoken_asset_cache' = d.ac
    /\ symPc' = "returned"
    /\ UNCHANGED rpc
    /\ UNCHANGED <<cfgVars, botVars, mgrVars, asyncVars, cacheVars, sweepVars>>

\* get_positions returns its list
SymbolsReturn ==
    /\ symPc = "returned"
    /\ symPc' = "idle"
    /\ reported' = NoReport
    /\ UNCHANGED <<_symbol_cache, _ctoken_asset_cache, rpc>>
    /\ UNCHANGED <<cfgVars, botVars, mgrVars, asyncVars, cacheVars, sweepVars>>

\* the node starts or stops failing the symbol() calls, the asset() calls
RpcChanges ==
    /\ \E calls \in [symbol : BOOLEAN, asset : BOOLEAN] :
        /\ calls /= rpc
        /\ rpc' = calls
    /\ UNCHANGED <<_symbol_cache, _ctoken_asset_cache, symPc, reported>>
    /\ UNCHANGED <<cfgVars, botVars, mgrVars, asyncVars, cacheVars, sweepVars>>

SymInit ==
    /\ user_data = EmptyUserData
    /\ user_data_file = save_user_data(user_data)
    /\ BotIdle /\ MgrIdle /\ AsyncIdle /\ CacheIdle /\ SweepIdle /\ SymIdle

SymNext ==
    \/ \E market_manager \in CurvanceManagers : GetSymbols(market_manager)
    \/ SymbolsReturn
    \/ RpcChanges

\* one strategy instance serving discoveries while the node's calls come and
\* go; a discovery that can start does start, and returns
SpecSymbols ==
    /\ SymInit /\ [][SymNext]_vars
    /\ WF_vars(\E market_manager \in CurvanceManagers : GetSymbols(market_manager))
    /\ WF_vars(SymbolsReturn)

----------------------------------------------------------------------------
(* The program starting on a saved file *)

\* the 'addresses' of a chat in a saved file: empty, or the address with a
\* default threshold, with or without its 'protocols'; and the
\* configuration with the three levels
SavedAddresses ==
    {[a \in Addresses |-> NoAddrData], WithLevels["c1"].addresses}
        \cup {[a \in Addresses |->
                  [present |-> TRUE, default_threshold |-> threshold,
                   hasProtocols |-> hasProtocols, protocols |-> EmptyProtocols]] :
                 threshold \in Thresholds \cup {DEFAULT_THRESHOLD, 0},
                 hasProtocols \in BOOLEAN}

\* the entries a chat has in a saved file: none, or any of the keys
\* 'addresses', 'address' and 'threshold'
SavedEntries ==
    {NoFileEntry}
        \cup {[address |-> address, threshold |-> threshold, entry |-> entry] :
                 address \in Addresses \cup {NoAddress},
                 threshold \in Thresholds \cup {NoThr},
                 entry \in {[NoChatData EXCEPT !.present = TRUE]}
                     \cup {[present |-> TRUE, hasAddresses |-> TRUE,
                            addresses |-> addresses] :
                              addresses \in SavedAddresses}}

\* the process has not run load_user_data yet
LoadInit ==
    /\ user_data = EmptyUserData
    /\ user_data_file \in [Chats -> SavedEntries]
    /\ BotIdle /\ MgrIdle /\ AsyncIdle /\ CacheIdle /\ SweepIdle /\ SymIdle

\* user_data = load_user_data()
Load ==
    /\ botCall = NoCall
    /\ LET loaded == load_user_data(user_data_file)
       IN  /\ user_data' = loaded.user_data
           /\ user_data_file' = loaded.file
           /\ botCall' = [kind |-> "load", data |-> user_data_file,
                          wrote |-> loaded.wrote]
    /\ UNCHANGED <<botResult, alerts, sent>>
    /\ UNCHANGED <<mgrVars, asyncVars, cacheVars, sweepVars, symVars>>

\* the process ends and a new one starts: the file stays
Restart ==
    /\ botCall.kind = "load"
    /\ botCall' = NoCall
    /\ user_data' = EmptyUserData
    /\ UNCHANGED <<user_data_file, botResult, alerts, sent>>
    /\ UNCHANGED <<mgrVars, asyncVars, cacheVars, sweepVars, symVars>>

LoadNext == Load \/ Restart

\* the program started, over and over, on the file it leaves
SpecLoad == LoadInit /\ [][LoadNext]_vars

Next == BotNext \/ MgrNext \/ AsyncNext

\* discovery by the bot and by the ProtocolManager, one call at a time
Spec == Init /\ [][Next]_vars

\* get_all_positions_async alone: the event loop runs every thread that can
\* come back and resumes the gather when it can
SpecAsync ==
    /\ ThresholdInit
    /\ [][AsyncNext]_vars
    /\ \A protocol_id \in ProtocolIds : WF_vars(ThreadReturns(protocol_id))
    /\ WF_vars(Gathered)
    /\ WF_vars(AsyncReturn)

----------------------------------------------------------------------------
(* Claims *)

\* the positions of one protocol in a result, in the order of the result
OfProtocol(positions, protocol_id) ==
    SelectSeq(positions, LAMBDA p : p.protocol_id = protocol_id)

\* the sum of a sequence of numbers
RECURSIVE SeqSum(_)
SeqSum(s) == IF s = <<>> THEN 0 ELSE Head(s) + SeqSum(Tail(s))

\* the sum of f over the indices in S
RECURSIVE SetSum(_, _)
SetSum(S, f) ==
    IF S = {} THEN 0
    ELSE LET x == CHOOSE y \in S : TRUE
         IN  f[x] + SetSum(S \ {x}, f)

\* per[p] for each p of to_check, one after the other
RECURSIVE InOrder(_, _)
InOrder(to_check, per) ==
    IF to_check = <<>> THEN <<>>
    ELSE per[Head(to_check)] \o InOrder(Tail(to_check), per)

\* the health factor is above 0 and at most 1e10
InRange(health_factor) == 0 < health_factor /\ health_factor <= HF_MAX

\* C1: every position discovery returns -- discover_all_positions of the
\* bot, get_all_positions and get_all_positions_async of the
\* ProtocolManager -- has a health factor above 0 and at most 1e10
C1_HealthFactorInRange ==
    /\ \A i \in DOMAIN botResult.positions :
           InRange(botResult.positions[i].health_factor)
    /\ \A i \in DOMAIN mgrResult.positions :
           InRange(mgrResult.positions[i].health_factor)
    /\ \A i \in DOMAIN asyncResult.positions :
           InRange(asyncResult.positions[i].health_factor)

\* the debt a position of the bot shows: that of its market_info, none
\* when there is no market_info or no number in it
BotDebt(pos) ==
    IF pos.market_info.present /\ pos.market_info.debt /= None
    THEN pos.market_info.debt ELSE 0

\* a PositionData shows a debt, as an amount or as a USD value
HasDebt(position) ==
    position.debt.amount > 0
    \/ (position.debt.usd_value /= None /\ position.debt.usd_value > 0)

\* C2: every position discovery returns has a debt above 0, whatever the
\* protocol; taken in the widest sense, a position passes when any of the
\* debt figures it carries is above 0
C2_DebtPositive ==
    /\ \A i \in DOMAIN botResult.positions : BotDebt(botResult.positions[i]) > 0
    /\ \A i \in DOMAIN mgrResult.positions : HasDebt(mgrResult.positions[i])
    /\ \A i \in DOMAIN asyncResult.positions : HasDebt(asyncResult.positions[i])

\* what the check of the chat discovers for one of its addresses
CheckFound(address) ==
    discover_all_positions(user_data, address, botCall.chat_id, NoFilter,
                           botCall.reads[address])

\* the threshold resolved for a discovered position of the address
ResolvedThreshold(address, pos) ==
    get_threshold_for_position(user_data, botCall.chat_id, address,
                               pos.protocol_id, pos.market_id)

\* the discovered positions of the address that are strictly below their
\* thresholds
BelowThreshold(address) ==
    {i \in DOMAIN CheckFound(address).positions :
        CheckFound(address).positions[i].health_factor
            < ResolvedThreshold(address, CheckFound(address).positions[i])}

\* the check has an alert for the position
AlertedFor(address, pos) ==
    \E j \in DOMAIN alerts :
        /\ alerts[j].address = address
        /\ alerts[j].protocol_id = pos.protocol_id
        /\ alerts[j].market_id = pos.market_id
        /\ alerts[j].health_factor = pos.health_factor

\* the addresses of the checked chat whose discovery returned
CheckedAddresses ==
    SelectSeq(ChatAddresses(user_data, botCall.chat_id),
              LAMBDA a : ~CheckFound(a).raised)

\* C3: in a check of a chat, a discovered position has an alert if and only
\* if its health factor is strictly below the threshold resolved for it, and
\* there are as many alerts as positions below their thresholds
C3_AlertIffBelowThreshold ==
    botCall.kind = "check" =>
        /\ \A k \in DOMAIN CheckedAddresses :
             \A i \in DOMAIN CheckFound(CheckedAddresses[k]).positions :
                AlertedFor(CheckedAddresses[k],
                           CheckFound(CheckedAddresses[k]).positions[i])
                <=> i \in BelowThreshold(CheckedAddresses[k])
        /\ Len(alerts) =
             SeqSum([k \in DOMAIN CheckedAddresses |->
                        Cardinality(BelowThreshold(CheckedAddresses[k]))])

\* a check that found one position exactly at its threshold, which has no
\* alert, and one strictly below its threshold, which has one
C3_Witness ==
    /\ botCall.kind = "check"
    /\ \E k \in DOMAIN CheckedAddresses :
         \E i, j \in DOMAIN CheckFound(CheckedAddresses[k]).positions :
            LET a    == CheckedAddresses[k]
                same == CheckFound(a).positions[i]
                less == CheckFound(a).positions[j]
            IN  /\ same.health_factor = ResolvedThreshold(a, same)
                /\ ~AlertedFor(a, same)
                /\ less.health_factor < ResolvedThreshold(a, less)
                /\ AlertedFor(a, less)

\* the chats, addresses, protocols and markets a threshold is asked for:
\* the configured ones and one unknown each
AskChats     == Chats \cup {"c0"}
AskAddresses == Addresses \cup {"a0"}
AskProtocols == ProtocolIds \cup {"euler"}
AskMarkets   == MarketIds \cup {"m0", NoMarket}

\* the three configured levels of a position, NoThr where not configured
MarketLevel(ud, c, a, p, m) ==
    IF /\ c \in Chats /\ a \in Addresses /\ p \in ProtocolIds /\ m \in MarketIds
       /\ ud[c].present /\ ud[c].addresses[a].present
       /\ ud[c].addresses[a].hasProtocols
       /\ ud[c].addresses[a].protocols[p].present
       /\ ud[c].addresses[a].protocols[p].hasMarkets
    THEN ud[c].addresses[a].protocols[p].markets[m] ELSE NoThr

ProtocolLevel(ud, c, a, p) ==
    IF /\ c \in Chats /\ a \in Addresses /\ p \in ProtocolIds
       /\ ud[c].present /\ ud[c].addresses[a].present
       /\ ud[c].addresses[a].hasProtocols
       /\ ud[c].addresses[a].protocols[p].present
    THEN ud[c].addresses[a].protocols[p].threshold ELSE NoThr

AddressLevel(ud, c, a) ==
    IF c \in Chats /\ a \in Addresses /\ ud[c].present /\ ud[c].addresses[a].present
    THEN ud[c].addresses[a].default_threshold ELSE NoThr

FirstDefined(levels) ==
    LET defined == {i \in 1..Len(levels) : levels[i] /= NoThr}
    IN  levels[CHOOSE i \in defined : \A j \in defined : i <= j]

\* C4: get_threshold_for_position returns the first defined value in the
\* order market-specific, protocol-specific, address default, 1.5, in every
\* configuration the commands reach
C4_ThresholdPrecedence ==
    \A c \in AskChats, a \in AskAddresses, p \in AskProtocols, m \in AskMarkets :
        get_threshold_for_position(user_data, c, a, p, m) =
            FirstDefined(<<MarketLevel(user_data, c, a, p, m),
                           ProtocolLevel(user_data, c, a, p),
                           AddressLevel(user_data, c, a),
                           DEFAULT_THRESHOLD>>)

\* all three levels are configured, with different values at the market and
\* the protocol level, and the market value is the one resolved
C4_Witness ==
    \E c \in Chats, a \in Addresses, p \in ProtocolIds, m \in MarketIds :
        /\ MarketLevel(user_data, c, a, p, m) /= NoThr
        /\ ProtocolLevel(user_data, c, a, p) /= NoThr
        /\ AddressLevel(user_data, c, a) /= NoThr
        /\ MarketLevel(user_data, c, a, p, m) /= ProtocolLevel(user_data, c, a, p)
        /\ get_threshold_for_position(user_data, c, a, p, m)
               = MarketLevel(user_data, c, a, p, m)

\* a call of get_all_positions in which the Curvance strategy ran
CurvanceFetched ==
    /\ mgrCall.kind = "get"
    /\ mgrCall.filter_protocol \in {NoFilter, "curvance"}
    /\ mgrCall.outcomes["curvance"] = "returns"

\* the raw positions of that call with the managers found for them
MgrResolved == CurvanceResolved(mgrCall.reads.c)

\* the resolved raw positions of one market manager
ResolvedTo(mm) ==
    {i \in DOMAIN MgrResolved : MgrResolved[i].market_manager = mm}

\* C5: the Curvance positions get_all_positions returns are one per market
\* manager that a raw position was resolved to, each with the sum of the
\* collateral amounts and the sum of the debts of the raw positions of its
\* manager and the health factor of the first of them
C5_MergedByManager ==
    CurvanceFetched =>
        LET cv == OfProtocol(mgrResult.positions, "curvance")
        IN  /\ \A i, j \in DOMAIN cv : cv[i].market_id = cv[j].market_id => i = j
            /\ {cv[i].market_id : i \in DOMAIN cv}
                   = {MgrResolved[i].market_manager : i \in DOMAIN MgrResolved}
            /\ \A i \in DOMAIN cv :
                 LET of == ResolvedTo(cv[i].market_id)
                     first == CHOOSE k \in of : \A l \in of : k <= l
                 IN  /\ cv[i].collateral.amount =
                            SetSum(of, [k \in of |-> MgrResolved[k].collateral_amount])
                     /\ cv[i].debt.amount =
                            SetSum(of, [k \in of |-> MgrResolved[k].debt_amount])
                     /\ cv[i].health_factor = MgrResolved[first].health_factor

\* two raw positions with debts of 2.0 each were resolved to one manager,
\* and the one position returned for it has the debt 4.0
C5_Witness ==
    /\ CurvanceFetched
    /\ Len(MgrResolved) = 2
    /\ MgrResolved[1].market_manager = MgrResolved[2].market_manager
    /\ MgrResolved[1].cToken /= MgrResolved[2].cToken
    /\ Len(mgrResult.positions) = 1
    /\ mgrResult.positions[1].market_id = MgrResolved[1].market_manager
    /\ mgrResult.positions[1].debt.amount = 40

\* the debt-bearing raw positions the discovery of the bot read
BotRawWithDebt == WithDebt(botCall.reads.c.raw)

\* C6: when the account has a single debt-bearing raw Curvance position,
\* discover_all_positions returns at most one Curvance position, and that
\* under the market manager that owns the raw position
C6_OneEntryPerRiskBucket ==
    (botCall.kind = "discover" /\ Len(BotRawWithDebt) = 1) =>
        LET cv == OfProtocol(botResult.positions, "curvance")
        IN  /\ Len(cv) <= 1
            /\ \A i \in DOMAIN cv : cv[i].market_id = BotRawWithDebt[1].owner

\* what each block of discover_all_positions appends when it runs alone
BlockAlone(protocol_id) ==
    CASE protocol_id = "neverland" ->
            DiscoverNeverland(user_data, botCall.chat_id, botCall.address,
                              botCall.reads.n).positions
      [] protocol_id = "morpho" ->
            DiscoverMorpho(user_data, botCall.chat_id, botCall.address,
                           botCall.reads.m).positions
      [] protocol_id = "curvance" ->
            DiscoverCurvance(user_data, botCall.chat_id, botCall.address,
                             botCall.reads.c).positions

\* what each strategy returns when it does not raise
StrategyAlone(protocol_id, reads) ==
    get_positions(protocol_id, AllReturn, reads).positions

KnownFilter(filter_protocol) ==
    filter_protocol = NoFilter \/ filter_protocol \in Range(strategies)

\* C7: an exception in the fetch of one protocol never leaves discovery, and
\* the result holds the positions of every other protocol asked for, as that
\* protocol alone gives them, in the order of the protocols
C7_HealthyAdaptersReturned ==
    /\ (botCall.kind = "discover" /\ user_data[botCall.chat_id].present) =>
          /\ ~botResult.raised
          /\ botResult.positions =
                InOrder(PROTOCOL_CONFIG,
                        [p \in ProtocolIds |->
                            IF botCall.filter_protocol \in {NoFilter, p}
                            THEN BlockAlone(p) ELSE <<>>])
    /\ (mgrCall.kind = "get" /\ KnownFilter(mgrCall.filter_protocol)) =>
          /\ ~mgrResult.raised
          /\ mgrResult.positions =
                InOrder(strategies_to_check(mgrCall.filter_protocol),
                        [p \in ProtocolIds |->
                            IF mgrCall.outcomes[p] = "raises" THEN <<>>
                            ELSE StrategyAlone(p, mgrCall.reads)])
    /\ (asyncPc = "returned" /\ KnownFilter(asyncCall.filter_protocol)) =>
          /\ ~asyncResult.raised
          /\ asyncResult.positions =
                InOrder(strategies_to_check(asyncCall.filter_protocol),
                        [p \in ProtocolIds |->
                            IF asyncOut[p].raised THEN <<>>
                            ELSE asyncOut[p].positions])

\* the Morpho block of a discovery raised, and the result holds the
\* Neverland position found before it and a Curvance position found after
C7_Witness ==
    /\ botCall.kind = "discover"
    /\ user_data[botCall.chat_id].present
    /\ DiscoverMorpho(user_data, botCall.chat_id, botCall.address,
                      botCall.reads.m).raised
    /\ OfProtocol(botResult.positions, "neverland") /= <<>>
    /\ OfProtocol(botResult.positions, "curvance") /= <<>>

\* C8: every call of get_all_positions_async that has started its threads
\* returns, also when the thread of an adapter never comes back
C8_AsyncTerminates == (asyncPc = "gathering") ~> (asyncPc = "returned")

\* what a request with a known filter returns when it finds no position
EmptyResult == [raised |-> FALSE, positions |-> <<>>]

\* C9: the outcome of a request whose filter names no registered protocol is
\* not the outcome of a request that found no positions
C9_UnknownFilterRejected ==
    /\ (mgrCall.kind = "get" /\ ~KnownFilter(mgrCall.filter_protocol)) =>
          mgrResult /= EmptyResult
    /\ (asyncPc = "returned" /\ ~KnownFilter(asyncCall.filter_protocol)) =>
          asyncResult /= EmptyResult

\* probing the managers gave the raw position no manager with a health
NoOwnerFound(chain, position) ==
    LET found == FindMarketManager(chain, position, get_curvance_market_managers(chain))
    IN  ~found.found \/ NoHealth(found.hf)

\* the probe of the one manager succeeded for some debt-bearing raw position
ProbedBy(chain, market_manager) ==
    \E i \in DOMAIN WithDebt(chain.raw) :
        ProbeManagers(chain, WithDebt(chain.raw)[i], <<market_manager>>) /= None

\* in the Curvance strategy, probing finds no owner for any debt-bearing raw
\* position of the call
StrategyFindsNoOwner ==
    /\ CurvanceFetched
    /\ \A i \in DOMAIN WithDebt(mgrCall.reads.c.raw) :
          NoOwnerFound(mgrCall.reads.c, WithDebt(mgrCall.reads.c.raw)[i])

\* in the bot, the probe of no market manager succeeds for any debt-bearing
\* raw position of the discovery
BotFindsNoOwner ==
    /\ botCall.kind = "discover"
    /\ \A mm \in Range(get_curvance_market_managers(botCall.reads.c)) :
          ~ProbedBy(botCall.reads.c, mm)

\* C10: a debt-bearing raw Curvance position for which probing the managers
\* finds no owner is dropped: when probing finds no owner for any raw
\* position of the account, neither the Curvance strategy nor the bot
\* returns a Curvance position
C10_UnownedPositionDropped ==
    /\ StrategyFindsNoOwner => OfProtocol(mgrResult.positions, "curvance") = <<>>
    /\ BotFindsNoOwner => OfProtocol(botResult.positions, "curvance") = <<>>

\* the discovery in hand repeats the one before it: the same chat, address
\* and filter
SameRequest ==
    /\ botCall.kind = "discover"
    /\ prevCall.call.kind = "discover"
    /\ botCall.chat_id = prevCall.call.chat_id
    /\ botCall.address = prevCall.call.address
    /\ botCall.filter_protocol = prevCall.call.filter_protocol

\* the discovery in hand ran before any cache entry the one before it read
\* was 30 seconds old
WithinCacheWindow == botCall.at < prevCall.call.window

\* C11: a discovery that repeats the one before it within the cache window,
\* with the chain and the indexer answering as before and the thresholds
\* unchanged, returns the same result and fetches nothing: every read is a
\* cache hit, also of a value that is None or empty
C11_RepeatServedFromCache ==
    (SameRequest /\ WithinCacheWindow /\ botCall.reads = prevCall.call.reads) =>
        /\ botResult = prevCall.result
        /\ botCall.fetched = {}

\* a repeated discovery within the window whose first call fetched, among
\* others, a value that is None or empty and found a position; the repeat
\* reads the same keys and fetches none
C11_Witness ==
    /\ SameRequest /\ WithinCacheWindow /\ botCall.reads = prevCall.call.reads
    /\ prevCall.call.at < botCall.at
    /\ \E key \in prevCall.call.fetched : _cache[key].value = NoValue(key)
    /\ prevCall.result.positions /= <<>>
    /\ botCall.keys = prevCall.call.keys
    /\ botCall.fetched = {}
    /\ botResult = prevCall.result

\* the positions of each protocol come in ascending order of health factor
WorstFirst(positions) ==
    \A i, j \in DOMAIN positions :
        (i < j /\ positions[i].protocol_id = positions[j].protocol_id)
            => positions[i].health_factor <= positions[j].health_factor

\* C12: the list discovery returns -- discover_all_positions of the bot,
\* get_all_positions and get_all_positions_async of the ProtocolManager --
\* is ordered worst-first within each protocol: of two positions of one
\* protocol, the one with the lower health factor comes first
C12_DiscoveryWorstFirst ==
    /\ WorstFirst(botResult.positions)
    /\ WorstFirst(mgrResult.positions)
    /\ WorstFirst(asyncResult.positions)

\* the alerts of each address and protocol come in ascending order of health
\* factor
AlertsWorstFirst(list) ==
    \A i, j \in DOMAIN list :
        (/\ i < j
         /\ list[i].address = list[j].address
         /\ list[i].protocol_id = list[j].protocol_id)
            => list[i].health_factor <= list[j].health_factor

\* C13: the alerts check_and_notify collects for an address, and the alerts
\* it sends, are worst-first within each protocol: in ascending order of
\* health factor
C13_AlertsWorstFirst ==
    botCall.kind = "check" =>
        /\ AlertsWorstFirst(alerts)
        /\ AlertsWorstFirst(sent)

\* what each strategy of the ProtocolManager gives its caller for the
\* answers of the call in hand
AdapterResult(protocol_id) == get_positions(protocol_id, AllReturn, mgrCall.reads)

\* the indexer of the call in hand cannot be reached, or its answer cannot
\* be used
IndexerFails == mgrCall.reads.m.status /= "ok"

\* C14: no adapter lets an exception escape: whatever the chain and the
\* indexer answer, get_positions of each strategy returns a list, and when
\* the indexer cannot be reached get_morpho_user_markets and the Morpho
\* strategy return the empty list
C14_AdaptersNeverRaise ==
    mgrCall.kind = "get" =>
        /\ \A protocol_id \in ProtocolIds : ~AdapterResult(protocol_id).raised
        /\ IndexerFails =>
              /\ get_morpho_user_markets(mgrCall.reads.m) = <<>>
              /\ AdapterResult("morpho").positions = <<>>

\* the Morpho strategy met a health factor that is no number after a valid
\* position: the exception is caught and the position before it returned
C14_Witness ==
    /\ mgrCall.kind = "get"
    /\ mgrCall.filter_protocol = "morpho"
    /\ mgrCall.outcomes["morpho"] = "returns"
    /\ MorphoStrategyPositions(get_morpho_user_markets(mgrCall.reads.m), <<>>).raised
    /\ Len(AdapterResult("morpho").positions) = 1
    /\ mgrResult.positions = AdapterResult("morpho").positions

\* the threshold resolved is a number: no failed lookup and no missing value
IsFloat(v) == v \notin {KeyError, NoThr, None, Unparseable}

\* C15: get_threshold_for_position never fails: it returns a number for
\* every chat id, address, protocol id and market id, in every configuration
\* reached through /add, /remove and /stop from a loaded file, an unknown
\* chat, an unknown address and entries without their 'protocols' or
\* 'markets' map included
C15_ThresholdNeverFails ==
    \A c \in AskChats, a \in AskAddresses, p \in AskProtocols, m \in AskMarkets :
        IsFloat(get_threshold_for_position(user_data, c, a, p, m))

\* /remove has deleted the 'protocols' map of a monitored address, and the
\* threshold of a position of that address is the default of the address
C15_Witness ==
    \E c \in Chats, a \in Addresses :
        /\ user_data[c].present
        /\ user_data[c].addresses[a].present
        /\ ~user_data[c].addresses[a].hasProtocols
        /\ get_threshold_for_position(user_data, c, a, "morpho", "m1")
               = user_data[c].addresses[a].default_threshold

\* the positions whose threshold a command at the level of protocol_id, or
\* of market_id of protocol_id, is not about
OtherPositions(protocol_id, market_id) ==
    {pm \in AskProtocols \X AskMarkets :
        IF market_id = NoMarket THEN pm[1] /= protocol_id
        ELSE pm /= <<protocol_id, market_id>>}

\* the thresholds of the positions of an address that are in a set resolve
\* the same in two configurations
SameThresholds(before, after, chat_id, address, positions) ==
    \A pm \in positions :
        get_threshold_for_position(after, chat_id, address, pm[1], pm[2])
            = get_threshold_for_position(before, chat_id, address, pm[1], pm[2])

\* C16: /add <address> <threshold> <protocol> [market] sets only the
\* threshold of that protocol, or of that market: the threshold resolved for
\* every other protocol and market of the address is the same before and
\* after the command, also when the address was not monitored before
C16_AddSetsOnlyItsLevel ==
    [][\A chat_id \in Chats, address \in Addresses, threshold \in Thresholds,
         protocol_id \in ProtocolIds, market_id \in CmdMarkets :
          (/\ user_data' /= user_data
           /\ user_data' = add_address(user_data, chat_id, address, threshold,
                                       protocol_id, market_id))
             => SameThresholds(user_data, user_data', chat_id, address,
                               OtherPositions(protocol_id, market_id))]_vars

\* the positions that keep their threshold when the protocol-level threshold
\* of protocol_id is removed: those of the other protocols, and the markets
\* of protocol_id that have a threshold of their own
KeptPositions(ud, chat_id, address, protocol_id) ==
    {pm \in AskProtocols \X AskMarkets :
        \/ pm[1] /= protocol_id
        \/ MarketLevel(ud, chat_id, address, pm[1], pm[2]) /= NoThr}

\* C17: /remove <address> <protocol> removes only the protocol-level
\* threshold of that protocol: the market-specific thresholds configured
\* under the protocol, and every threshold of the other protocols, resolve
\* to the same values after the command as before
C17_RemoveKeepsMarkets ==
    [][\A chat_id \in Chats, address \in Addresses, protocol_id \in ProtocolIds :
          (/\ user_data' /= user_data
           /\ user_data' = remove_address(user_data, chat_id, address,
                                          protocol_id, NoMarket))
             => SameThresholds(user_data, user_data', chat_id, address,
                               KeptPositions(user_data, chat_id, address,
                                             protocol_id))]_vars

\* every position of a list is a position of the protocol
OnlyOf(protocol_id, positions) ==
    \A i \in DOMAIN positions : positions[i].protocol_id = protocol_id

\* the strategies whose get_positions the asynchronous call has started
TasksStarted == {p \in ProtocolIds : task[p] /= "none"}

\* C18: with a protocol filter, discovery consults only the adapter of that
\* protocol and returns only positions of that protocol, while the other
\* protocols hold positions too; with no filter, the ProtocolManager starts
\* every registered strategy and discover_all_positions, for a chat of
\* user_data, enters the block of every configured protocol
C18_FilterSelectsAdapter ==
    /\ botCall.kind = "discover" =>
          IF botCall.filter_protocol /= NoFilter
          THEN /\ user_data[botCall.chat_id].present
                    => botCall.consulted = {botCall.filter_protocol} \cap ProtocolIds
               /\ botCall.consulted \subseteq {botCall.filter_protocol}
               /\ OnlyOf(botCall.filter_protocol, botResult.positions)
          ELSE user_data[botCall.chat_id].present
                  => botCall.consulted = ProtocolIds
    /\ mgrCall.kind = "get" /\ mgrCall.filter_protocol /= NoFilter
          => OnlyOf(mgrCall.filter_protocol, mgrResult.positions)
    /\ asyncPc \in {"gathering", "returned"} =>
          IF asyncCall.filter_protocol /= NoFilter
          THEN /\ TasksStarted = {asyncCall.filter_protocol} \cap Range(strategies)
               /\ OnlyOf(asyncCall.filter_protocol, asyncResult.positions)
          ELSE TasksStarted = Range(strategies)

\* a discovery filtered to Morpho found the Morpho position and entered no
\* other block, while Neverland and Curvance held a position each
C18_Witness ==
    /\ botCall.kind = "discover"
    /\ botCall.filter_protocol = "morpho"
    /\ botCall.reads.n = BusyWorld.n
    /\ botCall.reads.c = BusyWorld.c
    /\ botCall.consulted = {"morpho"}
    /\ Len(botResult.positions) > 0
    /\ OnlyOf("morpho", botResult.positions)

\* C19: discovery and threshold resolution are read-only with respect to
\* the threshold configuration: a call of discover_all_positions, with the
\* thresholds it resolves, leaves user_data and the saved file as they were,
\* for unknown chats, addresses and protocols too
C19_DiscoveryReadOnly ==
    [][(botCall' /= botCall /\ botCall'.kind = "discover")
          => /\ user_data' = user_data
             /\ user_data_file' = user_data_file]_vars

\* a discovery has resolved the thresholds of the positions it found, and
\* user_data and the file are the configuration with its three levels
C19_Witness ==
    /\ botCall.kind = "discover"
    /\ Len(botResult.positions) > 0
    /\ \A i \in DOMAIN botResult.positions :
          botResult.positions[i].threshold
              = get_threshold_for_position(user_data, botCall.chat_id, botCall.address,
                                           botResult.positions[i].protocol_id,
                                           botResult.positions[i].market_id)
    /\ user_data = WithLevels
    /\ user_data_file = save_user_data(WithLevels)

\* C20: a periodic sweep checks every chat that is monitored when the
\* sweep starts and still monitored when its turn comes, whatever commands
\* are handled while the sweep is suspended in a send: the sweep is never
\* aborted, and when it is over check_and_notify has been called for every
\* chat that was monitored from its start to its end
C20_SweepChecksEveryChat ==
    /\ sweepPc /= "aborted"
    /\ sweepPc = "done" => (atStart \ dropped) \subseteq checked

\* the threshold a command at the level of a protocol, or of a market of
\* it, is to store: the one found at that level of the configuration
StoredLevel(ud, c, a, p, m) ==
    IF m = NoMarket THEN ProtocolLevel(ud, c, a, p) ELSE MarketLevel(ud, c, a, p, m)

\* C21: after any sequence of /add, /remove and /stop, an /add with valid
\* arguments that names a protocol, or a protocol and a market, on a
\* monitored address succeeds and stores the threshold, also after
\* /remove <address> <protocol> has removed the last protocol entry of the
\* address
C21_AddOnMonitoredSucceeds ==
    \A c \in Chats, a \in Addresses, threshold \in Thresholds,
       p \in ProtocolIds, m \in CmdMarkets :
        (/\ user_data[c].present
         /\ user_data[c].addresses[a].present
         /\ AddAccepted(a, threshold, p, m))
            => StoredLevel(add_address(user_data, c, a, threshold, p, m), c, a, p, m)
                  = threshold

\* C22: a failure while notifying one chat -- its send is rejected, or the
\* generator of the rebalancing message raises -- does not keep the
\* remaining chats from being checked in the same sweep: when the sweep is
\* over after such a failure, check_and_notify has been called for every
\* chat that was monitored from its start to its end
C22_FailureSparesOtherChats ==
    sweepPc = "failed" => (atStart \ dropped) \subseteq checked

\* the entry of a key is younger than CACHE_TTL at time t
Fresh(entry, t) == entry.cached /\ entry.timestamp > t - CACHE_TTL

\* what a discovery is to be given for each key: the stored value of a
\* fresh entry, else what the chain or the indexer answers now
ServedByAge ==
    [key \in CacheKeys |->
        IF Fresh(_cache[key], now) THEN _cache[key].value ELSE fetch_func(key, world)]

\* C23: get_cached_or_fetch expires entries by absolute age.  A discovery is
\* given a stored value only of an entry stored less than CACHE_TTL ago, and
\* that read leaves the entry and its timestamp as they were; an entry that
\* is CACHE_TTL old or older is fetched again and stored with the time of
\* the call, however often it was read in between
C23_ExpiresByAbsoluteAge ==
    [][(botCall' /= botCall /\ botCall'.kind = "discover") =>
          /\ \A key \in botCall'.keys :
                IF Fresh(_cache[key], now)
                THEN /\ key \notin botCall'.fetched
                     /\ _cache'[key] = _cache[key]
                ELSE /\ key \in botCall'.fetched
                     /\ _cache'[key] = [cached |-> TRUE,
                                        value |-> fetch_func(key, world),
                                        timestamp |-> now]
          /\ \A key \in CacheKeys \ botCall'.keys : _cache'[key] = _cache[key]
          /\ botResult' = discover_through_cache(user_data, botCall'.address,
                                                 botCall'.chat_id,
                                                 botCall'.filter_protocol,
                                                 ServedByAge)]_vars

\* a discovery fetches again, although the same discovery read its entries
\* from the cache less than CACHE_TTL before
C23_Witness ==
    /\ SameRequest
    /\ prevCall.call.keys /= {}
    /\ prevCall.call.fetched = {}
    /\ botCall.at - prevCall.call.at < CACHE_TTL
    /\ botCall.fetched = botCall.keys
    /\ \A key \in botCall.keys : _cache[key].timestamp = botCall.at

\* the sequential loop of get_all_positions over the strategies to check,
\* each get_positions ending as in fetched
SequentialOver(to_check, fetched) ==
    ExtendAll([i \in 1..Len(to_check) |-> TryFetch(fetched[to_check[i]])], <<>>)

\* C24: get_all_positions_async returns the list get_all_positions returns
\* for the same strategies, filter and outcome of each adapter: the
\* positions of the adapters in the order of registration, none for an
\* adapter that raised, whatever order the tasks finished in
C24_AsyncEqualsSequential ==
    asyncPc = "returned" =>
        asyncResult =
            IF asyncCall.filter_protocol /= NoFilter
               /\ asyncCall.filter_protocol \notin Range(strategies)
            THEN get_all_positions(asyncCall.filter_protocol, AllReturn, QuietReads)
            ELSE SequentialOver(strategies_to_check(asyncCall.filter_protocol), asyncOut)

\* the three tasks finished in another order than that of registration, two
\* of them with positions and one with an exception, and the call returned
C24_Witness ==
    /\ asyncPc = "returned"
    /\ asyncCall.filter_protocol = NoFilter
    /\ Len(completed) = 3
    /\ completed /= strategies
    /\ \E p \in ProtocolIds : asyncOut[p].raised
    /\ Cardinality({p \in ProtocolIds :
                       ~asyncOut[p].raised /\ asyncOut[p].positions /= <<>>}) = 2
    /\ asyncResult.positions /= <<>>

\* one call of getPositionHealth: the manager, the cToken and the borrowable
\* cToken it is made with
Probe(mm, cToken, bctoken) == [mm |-> mm, cToken |-> cToken, bctoken |-> bctoken]

\* the first loop that probes a manager again when its probe was not taken
RECURSIVE FirstLoopProbes_retrying(_, _, _, _)
FirstLoopProbes_retrying(chain, cToken, collateral_amount, market_managers) ==
    IF market_managers = <<>> THEN <<>>
    ELSE IF MARKET_MANAGER_TO_BORROWABLE_CTOKEN(Head(market_managers)) = NoToken
    THEN FirstLoopProbes_retrying(chain, cToken, collateral_amount, Tail(market_managers))
    ELSE <<Probe(Head(market_managers), cToken,
                 MARKET_MANAGER_TO_BORROWABLE_CTOKEN(Head(market_managers)))>>
         \o (IF FirstLoopProbe(getPositionHealth(chain, Head(market_managers), cToken),
                               Head(market_managers), cToken, collateral_amount).found
             THEN <<>>
             ELSE <<Probe(Head(market_managers), cToken,
                          MARKET_MANAGER_TO_BORROWABLE_CTOKEN(Head(market_managers)))>>
                  \o FirstLoopProbes_retrying(chain, cToken, collateral_amount,
                                              Tail(market_managers)))

\* the calls of getPositionHealth the first loop of get_positions makes: one
\* for each manager with a borrowable cToken, up to the manager it takes
RECURSIVE FirstLoopProbes(_, _, _, _)
FirstLoopProbes(chain, cToken, collateral_amount, market_managers) ==
    IF market_managers = <<>> THEN <<>>
    ELSE IF MARKET_MANAGER_TO_BORROWABLE_CTOKEN(Head(market_managers)) = NoToken
    THEN FirstLoopProbes(chain, cToken, collateral_amount, Tail(market_managers))
    ELSE <<Probe(Head(market_managers), cToken,
                 MARKET_MANAGER_TO_BORROWABLE_CTOKEN(Head(market_managers)))>>
         \o (IF FirstLoopProbe(getPositionHealth(chain, Head(market_managers), cToken),
                               Head(market_managers), cToken, collateral_amount).found
             THEN <<>>
             ELSE FirstLoopProbes(chain, cToken, collateral_amount,
                                  Tail(market_managers)))

\* borrowable_tokens of _identify_market_manager_by_health
borrowable_tokens(chain, mm) ==
    AppendMissing(IF MARKET_MANAGER_TO_BORROWABLE_CTOKEN(mm) /= NoToken
                  THEN <<MARKET_MANAGER_TO_BORROWABLE_CTOKEN(mm)>> ELSE <<>>,
                  ListedOf(chain, mm))

\* the calls _identify_market_manager_by_health makes for the cTokens of one
\* manager: for every tested cToken that is not a borrowable one, one call
\* with each borrowable token, up to the call whose answer is taken
RECURSIVE TokenProbes(_, _, _, _, _)
TokenProbes(chain, mm, tokens, collateral_amount, debt_amount) ==
    IF tokens = <<>> THEN <<>>
    ELSE IF Head(tokens) \in BorrowableCTokens \/ borrowable_tokens(chain, mm) = <<>>
    THEN TokenProbes(chain, mm, Tail(tokens), collateral_amount, debt_amount)
    ELSE IF AcceptsProbe(getPositionHealth(chain, mm, Head(tokens)),
                         Head(tokens), collateral_amount, debt_amount)
    THEN <<Probe(mm, Head(tokens), Head(borrowable_tokens(chain, mm)))>>
    ELSE [i \in 1..Len(borrowable_tokens(chain, mm)) |->
             Probe(mm, Head(tokens), borrowable_tokens(chain, mm)[i])]
         \o TokenProbes(chain, mm, Tail(tokens), collateral_amount, debt_amount)

\* the calls of _identify_market_manager_by_health: those for each manager
\* in turn, up to the manager it returns
RECURSIVE IdentifyProbes(_, _, _, _)
IdentifyProbes(chain, collateral_amount, debt_amount, market_managers) ==
    IF market_managers = <<>> THEN <<>>
    ELSE TokenProbes(chain, Head(market_managers),
                     SortedTokens(Range(mm_ctokens(chain, Head(market_managers))),
                                  prioritize_wmon(collateral_amount, debt_amount)),
                     collateral_amount, debt_amount)
         \o (IF IdentifyToken(chain, Head(market_managers),
                     SortedTokens(Range(mm_ctokens(chain, Head(market_managers))),
                                  prioritize_wmon(collateral_amount, debt_amount)),
                     collateral_amount, debt_amount).found
             THEN <<>>
             ELSE IdentifyProbes(chain, collateral_amount, debt_amount,
                                 Tail(market_managers)))

\* the call that reads the health of the manager the second step identified
IdentifiedProbe(chain, hit) ==
    IF hit.found
    THEN <<Probe(hit.mm, hit.cToken, Head(borrowable_tokens(chain, hit.mm)))>>
    ELSE <<>>

\* the calls of the third loop of get_positions: one for each manager with a
\* borrowable cToken, with the original cToken, up to the manager it takes
RECURSIVE ThirdLoopProbes(_, _, _)
ThirdLoopProbes(chain, cToken, market_managers) ==
    IF market_managers = <<>> THEN <<>>
    ELSE IF MARKET_MANAGER_TO_BORROWABLE_CTOKEN(Head(market_managers)) = NoToken
    THEN ThirdLoopProbes(chain, cToken, Tail(market_managers))
    ELSE <<Probe(Head(market_managers), cToken,
                 MARKET_MANAGER_TO_BORROWABLE_CTOKEN(Head(market_managers)))>>
         \o (IF ThirdLoopProbe(getPositionHealth(chain, Head(market_managers), cToken),
                               Head(market_managers), cToken).found
             THEN <<>>
             ELSE ThirdLoopProbes(chain, cToken, Tail(market_managers)))

\* every call of getPositionHealth get_positions makes in its search for the
\* manager of one raw position, in the order of the calls
ProbesOfSearch(chain, position, market_managers) ==
    (IF position.cToken /= ZeroToken
     THEN FirstLoopProbes(chain, position.cToken, Tenths(position.collateral, WAD),
                          market_managers)
     ELSE <<>>)
    \o (IF ~FirstStep(chain, position, market_managers).found
           /\ position.cToken = ZeroToken
        THEN IdentifyProbes(chain, Tenths(position.collateral, WAD),
                            Tenths(position.debt, WAD),
                            market_managers_sorted(market_managers,
                                Tenths(position.collateral, WAD),
                                Tenths(position.debt, WAD)))
             \o IdentifiedProbe(chain,
                    identify_market_manager_by_health(chain,
                        Tenths(position.collateral, WAD), Tenths(position.debt, WAD),
                        market_managers_sorted(market_managers,
                            Tenths(position.collateral, WAD),
                            Tenths(position.debt, WAD))))
        ELSE <<>>)
    \o (IF ~SecondStep(chain, position, market_managers,
                       FirstStep(chain, position, market_managers)).found
        THEN ThirdLoopProbes(chain, position.cToken, market_managers)
        ELSE <<>>)

\* how often a call is made in a search
TimesProbed(probes, probe) ==
    Cardinality({i \in DOMAIN probes : probes[i] = probe})

\* the cTokens tested with the borrowable tokens of each manager
RECURSIVE CandidatePairs(_, _)
CandidatePairs(chain, market_managers) ==
    IF market_managers = <<>> THEN 0
    ELSE Len(mm_ctokens(chain, Head(market_managers)))
           * Len(borrowable_tokens(chain, Head(market_managers)))
         + CandidatePairs(chain, Tail(market_managers))

\* the most calls a search makes: the first and the third loop one for each
\* manager, the second step one for each tested pair of tokens
ProbeCap(chain, market_managers) ==
    2 * Len(market_managers) + CandidatePairs(chain, market_managers)

\* the searches of the call in hand: the calls made for each raw position
\* with debt
SearchesOfCall ==
    {ProbesOfSearch(mgrCall.reads.c, WithDebt(mgrCall.reads.c.raw)[i],
                    get_curvance_market_managers(mgrCall.reads.c)) :
        i \in DOMAIN WithDebt(mgrCall.reads.c.raw)}

\* C25 as stated: the search for the manager of each raw Curvance position
\* ends after a bounded number of getPositionHealth calls, and no candidate
\* is probed a second time
C25_NoCandidateRetried ==
    CurvanceFetched =>
        \A probes \in SearchesOfCall :
            /\ Len(probes) <= ProbeCap(mgrCall.reads.c,
                                       get_curvance_market_managers(mgrCall.reads.c))
            /\ \A i \in DOMAIN probes : TimesProbed(probes, probes[i]) = 1

\* C25, amended: the search for the manager of each raw Curvance position
\* ends after a bounded number of getPositionHealth calls, at most two for
\* each manager and one for each tested pair of tokens, with a manager or
\* with none, whatever the calls answer; a candidate is probed at most
\* twice
C25_SearchBounded ==
    CurvanceFetched =>
        \A probes \in SearchesOfCall :
            /\ Len(probes) <= ProbeCap(mgrCall.reads.c,
                                       get_curvance_market_managers(mgrCall.reads.c))
            /\ \A i \in DOMAIN probes : TimesProbed(probes, probes[i]) <= 2

\* every call of getPositionHealth fails, the search of a raw position with
\* a cToken has probed each of two managers in the first and in the third
\* loop and found none, and the search of a raw position without a cToken
\* has tested every pair of tokens
C25_Witness ==
    /\ CurvanceFetched
    /\ mgrCall.reads.c.miss = PositionHealthFails
    /\ mgrCall.reads.c.mmHealth["mm1"] = 0
    /\ Len(get_curvance_market_managers(mgrCall.reads.c)) = 2
    /\ \E i, j \in DOMAIN WithDebt(mgrCall.reads.c.raw) :
          /\ WithDebt(mgrCall.reads.c.raw)[i].cToken = "ct1"
          /\ ~FindMarketManager(mgrCall.reads.c, WithDebt(mgrCall.reads.c.raw)[i],
                                get_curvance_market_managers(mgrCall.reads.c)).found
          /\ Len(ProbesOfSearch(mgrCall.reads.c, WithDebt(mgrCall.reads.c.raw)[i],
                                get_curvance_market_managers(mgrCall.reads.c))) = 4
          /\ WithDebt(mgrCall.reads.c.raw)[j].cToken = ZeroToken
          /\ Len(ProbesOfSearch(mgrCall.reads.c, WithDebt(mgrCall.reads.c.raw)[j],
                                get_curvance_market_managers(mgrCall.reads.c)))
                > CandidatePairs(mgrCall.reads.c,
                                 get_curvance_market_managers(mgrCall.reads.c)) \div 2

\* a debt amount that is there and is a number other than 0
ParseableNonzero(borrow_amount) == borrow_amount \notin {None, Unparseable, 0}

\* C26: a Morpho reading whose health factor is absent, or whose debt amount
\* is missing or cannot be parsed as a number, is kept out of the discovery
\* result: every Morpho position the bot or the strategy returns has a
\* health factor and a debt amount that is a number other than 0
C26_InvalidReadingExcluded ==
    /\ \A i \in DOMAIN botResult.positions :
          botResult.positions[i].protocol_id = "morpho" =>
              /\ botResult.positions[i].health_factor /= None
              /\ ParseableNonzero(botResult.positions[i].market_info.debt)
    /\ \A i \in DOMAIN mgrResult.positions :
          mgrResult.positions[i].protocol_id = "morpho" =>
              /\ mgrResult.positions[i].health_factor /= None
              /\ ParseableNonzero(mgrResult.positions[i].debt.usd_value)

\* the chain with the raw positions of getAllDynamicState listed in the
\* opposite order: of at most two raw positions, the only other order
Relisted(chain) ==
    [chain EXCEPT !.raw = [i \in 1..Len(chain.raw) |-> chain.raw[Len(chain.raw) + 1 - i]]]

\* C27: the result of CurvanceStrategy.get_positions does not depend on the
\* order in which getAllDynamicState lists the raw positions: listed in
\* another order, the same chain state gives the same set of positions,
\* with the same health factor, collateral and debt for each market manager
C27_OrderOfRawPositions ==
    CurvanceFetched =>
        Range(CurvanceStrategy_get_positions(mgrCall.reads.c).positions)
            = Range(CurvanceStrategy_get_positions(Relisted(mgrCall.reads.c)).positions)

\* this step hands a message of the sweep to send_message
StartsSend ==
    /\ sweepPc' = "sending"
    /\ sweepPc = "next" \/ sent' /= sent

\* C28: once /stop has been handled for a chat, no alert is sent to it until
\* it issues /add again, neither by a later sweep nor by the sweep in
\* progress: no message is handed to send_message for a chat whose last
\* command handled was /stop
C28_NoAlertAfterStop ==
    [][StartsSend => botCall'.chat_id \notin stopped']_vars

\* the messages the check has sent for the position
MessagesFor(address, pos) ==
    Cardinality({j \in DOMAIN sent :
                    /\ sent[j].address = address
                    /\ sent[j].protocol_id = pos.protocol_id
                    /\ sent[j].market_id = pos.market_id
                    /\ sent[j].health_factor = pos.health_factor})

\* C29: when check_and_notify is over, every position it found below its
\* threshold has had exactly one message, the rebalancing message or the
\* plain alert, and a position at or above its threshold has had none
C29_OneMessagePerBreach ==
    botCall.kind = "check" =>
        \A k \in DOMAIN CheckedAddresses :
            \A i \in DOMAIN CheckFound(CheckedAddresses[k]).positions :
                MessagesFor(CheckedAddresses[k],
                            CheckFound(CheckedAddresses[k]).positions[i])
                    = IF i \in BelowThreshold(CheckedAddresses[k]) THEN 1 ELSE 0

\* the replies of an /add that is rejected
AddRejections ==
    {"usage", "invalid threshold", "invalid address", "unknown protocol",
     "invalid market"}

\* C30: an /add that is rejected, for fewer than two arguments, a threshold
\* that is no number or not positive, an invalid address, an unknown
\* protocol or a malformed Morpho or Curvance market id, leaves user_data
\* and the saved file exactly as they were
C30_RejectedAddChangesNothing ==
    [][(botCall'.kind = "add" /\ botCall'.reply \in AddRejections)
          => (user_data' = user_data /\ user_data_file' = user_data_file)]_vars

\* the chat monitors an address with a threshold for a Morpho market, and
\* its last /add was rejected for a malformed market id
C30_Witness ==
    /\ botCall.kind = "add"
    /\ botCall.reply = "invalid market"
    /\ \E c \in Chats, a \in Addresses :
          /\ user_data[c].present
          /\ user_data[c].addresses[a].present
          /\ user_data[c].addresses[a].protocols["morpho"].present
    /\ user_data_file = save_user_data(user_data)

\* C31: starting from an empty store, after any sequence of /add, /remove
\* and /stop every chat in user_data has its 'addresses' key with at least
\* one address in it: the chat is created together with its first address
\* and deleted together with its last
C31_ChatHasAddress ==
    \A c \in Chats :
        user_data[c].present =>
            /\ user_data[c].hasAddresses
            /\ \E a \in Addresses : user_data[c].addresses[a].present

\* /remove has deleted the last protocol threshold of an address, and with
\* it the 'protocols' key: the address and its chat are still there
C31_Witness ==
    \E c \in Chats, a \in Addresses :
        /\ user_data[c].present
        /\ user_data[c].addresses[a].present
        /\ ~user_data[c].addresses[a].hasProtocols


\* every symbol() and asset() call succeeds now
CallsSucceed == rpc = AllCallsSucceed

\* the discovery that has just returned gave its position the symbols the
\* chain holds
ReportsReal ==
    /\ symPc = "returned"
    /\ reported = RealSymbols(reported.market_manager)

\* C32: a failure of a symbol() or asset() call is transient in its effect:
\* from any moment the calls succeed, either they fail again or a discovery
\* of the CurvanceStrategy returns the real symbols of its position
C32_TransientFailureRecovers == CallsSucceed ~> (~CallsSucceed \/ ReportsReal)


\* the chats of a file that have the old format: an 'address' and no
\* 'addresses'
OldFormatChats(data) ==
    {c \in Chats : /\ data[c].entry.present
                   /\ ~data[c].entry.hasAddresses
                   /\ data[c].address /= NoAddress}

\* C33: migrate_user_data is idempotent: what it returns it returns
\* unchanged when applied again; an entry of the file with its 'addresses'
\* is returned as it is; and load_user_data writes the file only when an
\* entry of the old format was converted, leaving it as it was otherwise
C33_MigrateIdempotent ==
    [][botCall'.kind = "load" =>
          LET data     == botCall'.data
              migrated == migrate_user_data(data)
          IN  /\ migrate_user_data(migrated) = migrated
              /\ \A c \in Chats :
                    data[c].entry.hasAddresses => migrated[c] = data[c]
              /\ user_data' = InMemory(migrated)
              /\ botCall'.wrote => OldFormatChats(data) /= {}
              /\ ~botCall'.wrote => user_data_file' = data
              /\ migrate_user_data(data) = data => ~botCall'.wrote]_vars

\* load_user_data has run on a file that migrate_user_data made of a file
\* of the old format, and has not written it
C33_Witness ==
    /\ botCall.kind = "load"
    /\ ~botCall.wrote
    /\ \E address \in Addresses, threshold \in Thresholds \cup {NoThr} :
          botCall.data
              = migrate_user_data([c \in Chats |-> OldFormat(address, threshold)])
    /\ \E c \in Chats : user_data[c].present


\* n / d to the nearest integer, for d > 0
RoundDiv(n, d) == (2 * n + d) \div (2 * d)

\* (1 - 1/health_factor) * 100 in tenths of a percent, the health factor
\* in tenths: 1000 * (health_factor - 10) / health_factor
DropPct(health_factor) == RoundDiv((health_factor - 10) * 1000, health_factor)

\* the expression of build_check_message, as '.1f' prints it
liquidation_drop_pct(health_factor) ==
    IF health_factor > 0 THEN DropPct(health_factor) ELSE 0

\* C34: every position reported carries liquidation_drop_pct =
\* (1 - 1/health_factor) * 100 when its health factor is above 0 and none
\* otherwise (16.7 for a health factor of 1.2), and the check message shows
\* that value
C34_LiquidationDropPct ==
    /\ \A i \in DOMAIN mgrResult.positions :
          LET pos == mgrResult.positions[i]
          IN  pos.liquidation_drop_pct
                  = IF pos.health_factor > 0 THEN DropPct(pos.health_factor)
                    ELSE None
    /\ \A i \in DOMAIN botResult.positions :
          LET pos == botResult.positions[i]
          IN  liquidation_drop_pct(pos.health_factor)
                  = IF pos.health_factor > 0 THEN DropPct(pos.health_factor)
                    ELSE None

====
